---------------------------- MODULE Spec2Model ----------------------------
(***************************************************************************)
(* A model of the dyon tree-walking evaluator (src/src/runtime.rs).        *)
(*                                                                         *)
(* The runtime state is the value stack, the local stack and the call      *)
(* stack.  Every method of Runtime is an operator that maps a runtime      *)
(* record to the runtime record the method leaves behind, together with    *)
(* the (Expect, Flow) pair it returns.  A Rust panic is the field `panic`  *)
(* of the runtime record becoming a non-empty message.                     *)
(*                                                                         *)
(* Conventions                                                             *)
(*   - stack indices are 0-based as in the source; At(s, i) reads s[i].    *)
(*   - f64 numbers are modelled by integers.                               *)
(*   - a raw pointer `*mut Variable` is a stack index plus the path of     *)
(*     keys and indices that leads from that slot to the pointee.          *)
(*   - Option<T> is a sequence of length 0 or 1.                           *)
(***************************************************************************)
EXTENDS Integers, Sequences, FiniteSets, TLC

VARIABLES
    stack,        \* Runtime.stack : Vec<Variable>
    local_stack,  \* Runtime.local_stack : Vec<(name, stack index)>
    call_stack,   \* Runtime.call_stack : Vec<(name, stack_len, local_len)>
    panicked,     \* "" while running, else the message of the panic that ended the run
    prog,         \* the expressions of main's block evaluated so far (history)
    obs           \* observation of the last expression of main's block (history)

vars == <<stack, local_stack, call_stack, panicked, prog, obs>>

----------------------------------------------------------------------------
(* Bounds of the model.                                                    *)

\* Number of expressions of main's body explored after the declarations
\* that open it.
MaxOps == 2
\* Passes after which a for-loop of the model is cut off (the loops of the
\* programs explored make fewer passes).
MaxIter == 6
\* Nesting depth after which deep_clone and print_variable are cut off.
MaxDepth == 6

----------------------------------------------------------------------------
(* Variable (runtime.rs:1174-1184).                                        *)

VReturn == [t |-> "Return"]
VBool(b) == [t |-> "Bool", b |-> b]
VF64(n) == [t |-> "F64", n |-> n]
VText(s) == [t |-> "Text", s |-> s]
VObject(o) == [t |-> "Object", o |-> o]
VArray(a) == [t |-> "Array", a |-> a]
VRef(i) == [t |-> "Ref", ind |-> i]
VUnsafeRef(p) == [t |-> "UnsafeRef", p |-> p]

\* The empty HashMap.
EmptyObject == [k \in {} |-> VReturn]

\* Flow (runtime.rs:23-32).
FlowContinue == [f |-> "Continue", label |-> <<>>]
FlowReturn == [f |-> "Return", label |-> <<>>]
FlowBreak(l) == [f |-> "Break", label |-> l]
FlowContinueLoop(l) == [f |-> "ContinueLoop", label |-> l]

\* Side (runtime.rs:10-14).
Right == [side |-> "Right", insert |-> FALSE]
LeftInsert(b) == [side |-> "LeftInsert", insert |-> b]

----------------------------------------------------------------------------
(* Vec helpers: 0-based reads and writes, truncate.                        *)

At(s, i) == s[i + 1]
SetAt(s, i, v) == [s EXCEPT ![i + 1] = v]
Truncate(s, n) == IF Len(s) > n THEN SubSeq(s, 1, n) ELSE s
Last(s) == s[Len(s)]
Front(s) == SubSeq(s, 1, Len(s) - 1)

\* `x as usize` for a number: the cast saturates at 0.
AsUsize(n) == IF n < 0 THEN 0 ELSE n

\* `let v = ..;` followed by the code F that uses v: v is computed first.
Let(v, F(_)) == CASE v = v -> F(v)

----------------------------------------------------------------------------
(* The runtime record threaded through the evaluator, and results.         *)

Panic(rt, msg) == IF rt.panic = "" THEN [rt EXCEPT !.panic = msg] ELSE rt
Failed(rt) == rt.panic # ""
Log(rt, ev) == [rt EXCEPT !.trace = Append(@, ev)]
Push(rt, v) == [rt EXCEPT !.stack = Append(@, v)]
Res(rt, expect, flow) == [rt |-> rt, expect |-> expect, flow |-> flow]

\* resolve (runtime.rs:44-49); RefOk is the bounds check of `stack[ind]`.
RefOk(stk, var) == var.t # "Ref" \/ var.ind < Len(stk)
resolve(stk, var) == IF var.t = "Ref" THEN At(stk, var.ind) ELSE var

----------------------------------------------------------------------------
(* deep_clone (runtime.rs:51-78).  The result is Bad when the source       *)
(* panics (an UnsafeRef, a StackRef out of the stack) or does not return   *)
(* (a cycle through StackRefs, cut off at MaxDepth).                       *)

Bad(why) == [t |-> "Bad", why |-> why]

RECURSIVE deep_clone_rec(_, _, _)
deep_clone_rec(v, stk, fuel) ==
    IF fuel = 0 THEN Bad("deep_clone does not terminate")
    ELSE CASE v.t \in {"F64", "Return", "Bool", "Text"} -> v
      [] v.t = "Object" ->
            LET res == [k \in DOMAIN v.o |-> deep_clone_rec(v.o[k], stk, fuel - 1)]
                bad == {k \in DOMAIN v.o : res[k].t = "Bad"}
            IN  IF bad = {} THEN VObject(res) ELSE res[CHOOSE k \in bad : TRUE]
      [] v.t = "Array" ->
            LET res == [i \in 1..Len(v.a) |-> deep_clone_rec(v.a[i], stk, fuel - 1)]
                bad == {i \in 1..Len(v.a) : res[i].t = "Bad"}
            IN  IF bad = {} THEN VArray(res) ELSE res[CHOOSE i \in bad : TRUE]
      [] v.t = "Ref" ->
            IF v.ind < Len(stk) THEN deep_clone_rec(At(stk, v.ind), stk, fuel - 1)
            ELSE Bad("index out of bounds")
      [] OTHER -> Bad("Unsafe reference can not be cloned")

deep_clone(v, stk) == deep_clone_rec(v, stk, MaxDepth)

----------------------------------------------------------------------------
(* Raw pointers.  A pointer is [root, path]: stack slot `root`, then the   *)
(* segments of `path` ([key |-> k] into an object, [idx |-> i] into an     *)
(* array).                                                                 *)

Ptr(root, path) == [root |-> root, path |-> path]

RECURSIVE ReadIn(_, _)
ReadIn(v, path) ==
    IF path = <<>> THEN v
    ELSE LET h == Head(path)
         IN  IF "key" \in DOMAIN h THEN ReadIn(v.o[h.key], Tail(path))
             ELSE ReadIn(v.a[h.idx + 1], Tail(path))

RECURSIVE WriteIn(_, _, _)
WriteIn(v, path, new) ==
    IF path = <<>> THEN new
    ELSE LET h == Head(path)
         IN  IF "key" \in DOMAIN h
             THEN VObject([k \in DOMAIN v.o \cup {h.key} |->
                     IF k = h.key
                     THEN WriteIn(IF k \in DOMAIN v.o THEN v.o[k] ELSE VReturn,
                                  Tail(path), new)
                     ELSE v.o[k]])
             ELSE VArray([v.a EXCEPT ![h.idx + 1] = WriteIn(@, Tail(path), new)])

\* `*p` and `*p = new`.
Deref(stk, p) == ReadIn(At(stk, p.root), p.path)
Store(stk, p, new) == SetAt(stk, p.root, WriteIn(At(stk, p.root), p.path, new))

----------------------------------------------------------------------------
(* item_lookup (runtime.rs:81-163).  `var` is the cursor, `prop` one       *)
(* ast::Id: [id |-> "String", s], [id |-> "F64", n] or                     *)
(* [id |-> "Expression", e].  Returns the stack (a key may have been       *)
(* inserted), the new cursor, expr_j and the panic message ("" if none).   *)

LookupRes(stk, var, expr_j, msg) ==
    [stack |-> stk, var |-> var, expr_j |-> expr_j, panic |-> msg]

\* The `// Resolve reference.` tail shared by both arms (runtime.rs:112-123,
\* 147-158): a Ref in the slot is followed unless the segment is the last.
lookup_resolve(stk, slot, expr_j, last) ==
    Let(Deref(stk, slot), LAMBDA v:
        IF v.t = "Ref" /\ ~last
        THEN IF v.ind < Len(stk)
             THEN LookupRes(stk, Ptr(v.ind, <<>>), expr_j, "")
             ELSE LookupRes(stk, slot, expr_j, "index out of bounds")
        ELSE LookupRes(stk, slot, expr_j, ""))

\* The object arm (runtime.rs:95-124).
lookup_object(var, stk, cur, prop, expr_j, insert, last) ==
    IF prop.id # "String" THEN LookupRes(stk, var, expr_j, "Expected object")
    ELSE Let(Ptr(var.root, Append(var.path, [key |-> prop.s])), LAMBDA slot:
             IF prop.s \notin DOMAIN cur.o /\ ~(insert /\ last)
             THEN LookupRes(stk, var, expr_j, "Object has no key")
             ELSE lookup_resolve(IF prop.s \in DOMAIN cur.o THEN stk
                                 ELSE Store(stk, slot, VReturn),
                                 slot, expr_j, last))

\* The index of an array segment (runtime.rs:126-145): the panic message
\* ("" if none), the index read and expr_j.
IndexRes(msg, id, expr_j) == [msg |-> msg, id |-> id, expr_j |-> expr_j]

lookup_index(stk, prop, start_stack_len, expr_j) ==
    CASE prop.id = "F64" -> IndexRes("", prop.n, expr_j)
      [] prop.id = "Expression" ->
            Let(start_stack_len + expr_j, LAMBDA id0:
                IF id0 >= Len(stk) THEN IndexRes("index out of bounds", 0, expr_j)
                ELSE Let(IF At(stk, id0).t = "Ref" THEN At(stk, id0).ind ELSE id0,
                         LAMBDA id:
                         IF id >= Len(stk) THEN IndexRes("index out of bounds", 0, expr_j)
                         ELSE IF At(stk, id).t = "F64"
                              THEN IndexRes("", At(stk, id).n, expr_j + 1)
                              ELSE IndexRes("Expected number", 0, expr_j)))
      [] OTHER -> IndexRes("Expected array", 0, expr_j)

\* The array arm (runtime.rs:125-159).
lookup_array(var, stk, cur, prop, start_stack_len, expr_j, last) ==
    Let(lookup_index(stk, prop, start_stack_len, expr_j), LAMBDA ix:
        IF ix.msg # "" THEN LookupRes(stk, var, expr_j, ix.msg)
        ELSE IF AsUsize(ix.id) >= Len(cur.a)
             THEN LookupRes(stk, var, ix.expr_j, "index out of bounds")
             ELSE lookup_resolve(stk,
                      Ptr(var.root, Append(var.path, [idx |-> AsUsize(ix.id)])),
                      ix.expr_j, last))

item_lookup(var, stk, prop, start_stack_len, expr_j, insert, last) ==
    Let(Deref(stk, var), LAMBDA cur:
        CASE cur.t = "Object" -> lookup_object(var, stk, cur, prop, expr_j, insert, last)
          [] cur.t = "Array" ->
                lookup_array(var, stk, cur, prop, start_stack_len, expr_j, last)
          [] OTHER -> LookupRes(stk, var, expr_j, "Expected object or array"))

\* The walk over item.ids (runtime.rs:910-933), from segment i on.
RECURSIVE lookup_path(_, _, _, _, _, _, _)
lookup_path(var, stk, ids, i, start_stack_len, expr_j, insert) ==
    IF i > Len(ids) THEN LookupRes(stk, var, expr_j, "")
    ELSE Let(item_lookup(var, stk, ids[i], start_stack_len, expr_j, insert,
                         i = Len(ids)),
             LAMBDA r:
             IF r.panic # "" THEN r
             ELSE lookup_path(r.var, r.stack, ids, i + 1, start_stack_len,
                              r.expr_j, insert))

----------------------------------------------------------------------------
(* Local lookup: the position in local_stack (1-based, 0 if none) of the   *)
(* most recent binding of `name` among the `locals` bindings of the        *)
(* current frame (runtime.rs:871-877, 894-902).                            *)

RECURSIVE find_local_from(_, _, _, _)
find_local_from(ls, name, i, low) ==
    IF i <= low THEN 0
    ELSE IF ls[i].name = name THEN i
         ELSE find_local_from(ls, name, i - 1, low)

\* The search over the bindings of every frame.
find_local_all(ls, locals, name) == find_local_from(ls, name, Len(ls), 0)

find_local(ls, locals, name) == find_local_from(ls, name, Len(ls), Len(ls) - locals)

----------------------------------------------------------------------------
(* The AST consumed by the evaluator (the `ast` module, used by            *)
(* runtime.rs through ast::Expression, ast::Id, ast::AssignOp, ...).       *)

Number(n) == [k |-> "Number", num |-> n]
Text(s) == [k |-> "Text", text |-> s]
Bool(b) == [k |-> "Bool", val |-> b]
Object(kvs) == [k |-> "Object", key_values |-> kvs]
Array(items) == [k |-> "Array", items |-> items]
Block(es) == [k |-> "Block", expressions |-> es]
Return(e) == [k |-> "Return", expr |-> e]
Break(l) == [k |-> "Break", label |-> l]
Continue(l) == [k |-> "Continue", label |-> l]
Call(name, args) == [k |-> "Call", name |-> name, args |-> args]
Item(name, ids) == [k |-> "Item", name |-> name, ids |-> ids]
UnOp(op, e) == [k |-> "UnOp", op |-> op, expr |-> e]
BinOp(op, l, r) == [k |-> "BinOp", op |-> op, left |-> l, right |-> r]
Assign(op, l, r) == [k |-> "Assign", op |-> op, left |-> l, right |-> r]
Compare(op, l, r) == [k |-> "Compare", op |-> op, left |-> l, right |-> r]
If(c, tb, eb) == [k |-> "If", cond |-> c, true_block |-> tb, else_block |-> eb]
For(l, init, c, step, b) ==
    [k |-> "For", label |-> l, init |-> init, cond |-> c, step |-> step, block |-> b]
Function(name, args, returns, b) ==
    [name |-> name, args |-> args, returns |-> returns, block |-> b]

\* ast::Id
IdString(s) == [id |-> "String", s |-> s]
IdF64(n) == [id |-> "F64", n |-> n]
IdExpression(e) == [id |-> "Expression", e |-> e]

\* Option
None == <<>>
Some(x) == <<x>>

\* Shorthands for writing programs.
Var(name) == Item(name, <<>>)
Dot(name, key) == Item(name, <<IdString(key)>>)
Ix(name, n) == Item(name, <<IdF64(n)>>)
KV(key, e) == [key |-> key, expr |-> e]
Declare(name, e) == Assign("Assign", Var(name), e)
Set(l, e) == Assign("Set", l, e)
Lt(a, b) == Compare("Less", a, b)
\* for 'l v := 0; v < n; v += 1 body
CountTo(l, v, n, body) ==
    For(l, Declare(v, Number(0)), Lt(Var(v), Number(n)),
        Assign("Add", Var(v), Number(1)), body)

----------------------------------------------------------------------------
(* Runtime.functions: the user functions of the programs explored          *)
(* (registered by Runtime::run, runtime.rs:305-313).                       *)

\* fn inc(x) { x += 1 }
fn_inc ==
    Function("inc", <<"x">>, FALSE, Block(<<Assign("Add", Var("x"), Number(1))>>))
\* fn put(o) { o.p = 9 }
fn_put ==
    Function("put", <<"o">>, FALSE, Block(<<Set(Dot("o", "p"), Number(9))>>))
\* fn sq(x) -> { return = x * x }
fn_sq ==
    Function("sq", <<"x">>, TRUE,
        Block(<<Set(Var("return"), BinOp("Mul", Var("x"), Var("x")))>>))
\* fn add(x, y) -> { return x + y }
fn_add ==
    Function("add", <<"x", "y">>, TRUE,
        Block(<<Return(BinOp("Add", Var("x"), Var("y")))>>))
\* fn early(x) -> { t := 0
\*     for i := 0; i < 2; i += 1 { if i == x { { return 7 } } t += 1 }
\*     return = t }
fn_early ==
    Function("early", <<"x">>, TRUE,
        Block(<<Declare("t", Number(0)),
                CountTo(None, "i", 2,
                    Block(<<If(Compare("Equal", Var("i"), Var("x")),
                               Block(<<Block(<<Return(Number(7))>>)>>), None),
                            Assign("Add", Var("t"), Number(1))>>)),
                Set(Var("return"), Var("t"))>>))
\* fn maybe(x) -> { if x == 1 { return = 5 } }
fn_maybe ==
    Function("maybe", <<"x">>, TRUE,
        Block(<<If(Compare("Equal", Var("x"), Number(1)),
                   Block(<<Set(Var("return"), Number(5))>>), None)>>))
\* fn peek() -> { return = x }
fn_peek == Function("peek", <<>>, TRUE, Block(<<Set(Var("return"), Var("x"))>>))
\* fn noret() -> { t := 1 }
fn_noret == Function("noret", <<>>, TRUE, Block(<<Declare("t", Number(1))>>))
\* fn shadow() -> { return := 5; return 6 }
fn_shadow ==
    Function("shadow", <<>>, TRUE,
        Block(<<Declare("return", Number(5)), Return(Number(6))>>))
\* fn void(x) { t := x; u := [t] }
fn_void ==
    Function("void", <<"x">>, FALSE,
        Block(<<Declare("t", Var("x")), Declare("u", Array(<<Var("t")>>))>>))
\* fn brk() { break }, fn brk_a() { break 'a }, fn cont() { continue },
\* fn cont_a() { continue 'a }
fn_brk == Function("brk", <<>>, FALSE, Block(<<Break(None)>>))
fn_brk_a == Function("brk_a", <<>>, FALSE, Block(<<Break(Some("a"))>>))
fn_cont == Function("cont", <<>>, FALSE, Block(<<Continue(None)>>))
fn_cont_a == Function("cont_a", <<>>, FALSE, Block(<<Continue(Some("a"))>>))
\* fn own() { for i := 0; i < 2; i += 1 { break }
\*            for 'a j := 0; j < 2; j += 1 { continue 'a } }
fn_own ==
    Function("own", <<>>, FALSE,
        Block(<<CountTo(None, "i", 2, Block(<<Break(None)>>)),
                CountTo(Some("a"), "j", 2, Block(<<Continue(Some("a"))>>))>>))

\* fn mk() -> { t := 1; return = [t] }
fn_mk ==
    Function("mk", <<>>, TRUE,
             Block(<<Declare("t", Number(1)), Set(Var("return"), Array(<<Var("t")>>))>>))

\* fn stash(o) -> { o.z := return; return = 1 }
fn_stash ==
    Function("stash", <<"o">>, TRUE,
             Block(<<Assign("Assign", Dot("o", "z"), Var("return")),
                     Set(Var("return"), Number(1))>>))

\* fn bump(x) -> { x += 1; return = 0 }
fn_bump ==
    Function("bump", <<"x">>, TRUE,
             Block(<<Assign("Add", Var("x"), Number(1)), Set(Var("return"), Number(0))>>))

\* Functions with a `return` in a sub-expression that has siblings.
\* fn in_array(v) -> { [return v, 2] }
fn_in_array ==
    Function("in_array", <<"v">>, TRUE,
             Block(<<Array(<<Return(Var("v")), Number(2)>>)>>))
\* fn in_object(v) -> { {k: return v, m: 2} }
fn_in_object ==
    Function("in_object", <<"v">>, TRUE,
             Block(<<Object(<<KV("k", Return(Var("v"))), KV("m", Number(2))>>)>>))
\* fn in_init(v) -> { for return v; false; 0 { } 2 }
fn_in_init ==
    Function("in_init", <<"v">>, TRUE,
             Block(<<For(None, Return(Var("v")), Bool(FALSE), Number(0), Block(<<>>)),
                     Number(2)>>))
\* fn in_bracket(v) -> { v[(return v)][(0)] }
fn_in_bracket ==
    Function("in_bracket", <<"v">>, TRUE,
             Block(<<Item("v", <<IdExpression(Return(Var("v"))),
                                 IdExpression(Number(0))>>)>>))

functions ==
    [name \in {"inc", "put", "sq", "add", "early", "maybe", "peek", "noret", "shadow",
               "void", "brk", "brk_a", "cont", "cont_a", "own",
               "in_array", "in_object", "in_init", "in_bracket", "mk",
               "stash", "bump"} |->
        CASE name = "inc" -> fn_inc
          [] name = "put" -> fn_put
          [] name = "sq" -> fn_sq
          [] name = "add" -> fn_add
          [] name = "early" -> fn_early
          [] name = "maybe" -> fn_maybe
          [] name = "peek" -> fn_peek
          [] name = "mk" -> fn_mk
          [] name = "stash" -> fn_stash
          [] name = "bump" -> fn_bump
          [] name = "in_array" -> fn_in_array
          [] name = "in_object" -> fn_in_object
          [] name = "in_init" -> fn_in_init
          [] name = "in_bracket" -> fn_in_bracket
          [] name = "noret" -> fn_noret
          [] name = "shadow" -> fn_shadow
          [] name = "void" -> fn_void
          [] name = "brk" -> fn_brk
          [] name = "brk_a" -> fn_brk_a
          [] name = "cont" -> fn_cont
          [] name = "cont_a" -> fn_cont_a
          [] OTHER -> fn_own]

----------------------------------------------------------------------------
(* The evaluator.                                                          *)

RECURSIVE expression(_, _, _)
RECURSIVE block(_, _)
RECURSIVE call(_, _)
RECURSIVE object(_, _)
RECURSIVE array(_, _)
RECURSIVE assign_specific(_, _, _, _)
RECURSIVE item(_, _, _)
RECURSIVE compare(_, _)
RECURSIVE if_expr(_, _)
RECURSIVE for_expr(_, _)
RECURSIVE unop(_, _, _)
RECURSIVE binop(_, _, _)


\* Runtime::number, text, bool (runtime.rs:1086-1094).
number(rt, num) == Push(rt, VF64(num.num))
text(rt, t) == Push(rt, VText(t.text))
bool(rt, val) == Push(rt, VBool(val.val))

\* A push_fn that pushes the frame twice.
push_fn_twice(rt, name, st, lc) ==
    [rt EXCEPT !.call_stack = @ \o << [name |-> name, st |-> st, lc |-> lc],
                                      [name |-> name, st |-> st, lc |-> lc] >>]

\* push_fn (runtime.rs:233-239).
push_fn(rt, name, st, lc) ==
    [rt EXCEPT !.call_stack = Append(@, [name |-> name, st |-> st, lc |-> lc])]

\* pop_fn without the truncation of the value stack.
pop_fn_keeps_stack(rt, name) ==
    IF rt.call_stack = <<>> THEN Panic(rt, "Did not call")
    ELSE IF Last(rt.call_stack).name # name THEN Panic(rt, "Calling, did not call")
    ELSE [rt EXCEPT !.call_stack = Front(@),
                    !.local_stack = Truncate(@, Last(rt.call_stack).lc)]

\* pop_fn (runtime.rs:240-251).
pop_fn(rt, name) ==
    IF rt.call_stack = <<>> THEN Panic(rt, "Did not call")
    ELSE IF Last(rt.call_stack).name # name THEN Panic(rt, "Calling, did not call")
    ELSE [rt EXCEPT !.call_stack = Front(@),
                    !.stack = Truncate(@, Last(rt.call_stack).st),
                    !.local_stack = Truncate(@, Last(rt.call_stack).lc)]

\* `self.stack.pop()`: [rt, v], with `none` when the stack was empty.
Pop(rt) ==
    IF rt.stack = <<>> THEN [rt |-> rt, none |-> TRUE, v |-> VReturn]
    ELSE [rt |-> [rt EXCEPT !.stack = Front(@)], none |-> FALSE, v |-> Last(rt.stack)]

\* A panic: the runtime as it stands, and no result.
Fail(rt, msg) == Res(Panic(rt, msg), "Nothing", FlowContinue)

\* `(expect, flow)` with the flow of r: the arms of expression that map
\* `self.f(..)` to `(Expect::.., self.f(..))`.
Expecting(expect, r) == [r EXCEPT !.expect = expect]

\* What one evaluation of an expression did, for the history: the names
\* bound in the frame, the bindings of the frame and the position in the
\* history at its start, the heights of the value stack and the local
\* stack and the call stack around it, the top of the stack after it, and what it returned.
ExprEvent(rt, expr, r) ==
    [ev |-> "expr", expr |-> expr, t_in |-> Len(rt.trace),
     names |-> {rt.local_stack[i].name :
                   i \in (IF rt.call_stack = <<>> THEN 1
                          ELSE Last(rt.call_stack).lc + 1)..Len(rt.local_stack)},
     frame |-> SubSeq(rt.local_stack,
                      IF rt.call_stack = <<>> THEN 1 ELSE Last(rt.call_stack).lc + 1,
                      Len(rt.local_stack)),
     st_in |-> Len(rt.stack), st_out |-> Len(r.rt.stack),
     lc_in |-> Len(rt.local_stack), lc_out |-> Len(r.rt.local_stack),
     calls_in |-> rt.call_stack, calls_out |-> r.rt.call_stack,
     top |-> IF r.rt.stack = <<>> THEN VReturn ELSE Last(r.rt.stack),
     expect |-> r.expect, flow |-> r.flow]

\* The result r of expr evaluated at rt, entered in the history.
Observed(rt, expr, r) ==
    IF r.rt.panic # "" THEN r
    ELSE Res(Log(r.rt, ExprEvent(rt, expr, r)), r.expect, r.flow)

\* expression (runtime.rs:253-303).
expression(rt, expr, side) ==
    Observed(rt, expr,
         CASE Failed(rt) -> Res(rt, "Nothing", FlowContinue)
           [] expr.k = "Object" -> Res(object(rt, expr), "Something", FlowContinue)
           [] expr.k = "Array" -> Res(array(rt, expr), "Something", FlowContinue)
           [] expr.k = "Block" -> block(rt, expr)
           [] expr.k = "Return" ->
                 \* the flow returned by assign_specific is dropped
                 Res(assign_specific(rt, "Set", Item("return", <<>>), expr.expr).rt,
                     "Something", FlowReturn)
           [] expr.k = "Break" -> Res(rt, "Nothing", FlowBreak(expr.label))
           [] expr.k = "Continue" -> Res(rt, "Nothing", FlowContinueLoop(expr.label))
           [] expr.k = "Call" -> call(rt, expr)
           [] expr.k = "Item" -> Res(item(rt, expr, side), "Something", FlowContinue)
           [] expr.k = "UnOp" -> Expecting("Something", unop(rt, expr, side))
           [] expr.k = "BinOp" -> Expecting("Something", binop(rt, expr, side))
           [] expr.k = "Assign" ->
                 Expecting("Nothing", assign_specific(rt, expr.op, expr.left, expr.right))
           [] expr.k = "Number" -> Res(number(rt, expr), "Something", FlowContinue)
           [] expr.k = "Text" -> Res(text(rt, expr), "Something", FlowContinue)
           [] expr.k = "Bool" -> Res(bool(rt, expr), "Something", FlowContinue)
           [] expr.k = "For" -> Expecting("Nothing", for_expr(rt, expr))
           [] expr.k = "If" -> if_expr(rt, expr)
           [] expr.k = "Compare" -> Expecting("Something", compare(rt, expr)))

\* The loop of block (runtime.rs:331-336), from expression i on.
RECURSIVE block_loop(_, _, _, _)
block_loop(rt, es, i, expect) ==
    IF i > Len(es) THEN Res(rt, expect, FlowContinue)
    ELSE Let(expression(rt, es[i], Right), LAMBDA r:
             IF Failed(r.rt) \/ r.flow.f # "Continue" THEN r
             ELSE block_loop(r.rt, es, i + 1, r.expect))

\* What a block did, for the history: the local-stack heights at entry,
\* after the loop over its expressions (lc_loop) and at exit.
BlockEvent(rt, r, lc_out) ==
    [ev |-> "block", lc_in |-> Len(rt.local_stack),
     lc_loop |-> Len(r.rt.local_stack), lc_out |-> lc_out, flow |-> r.flow]

\* block without the truncation of the local stack.
block_keeps_locals(rt, b) ==
    Let(block_loop(rt, b.expressions, 1, "Nothing"), LAMBDA r:
    IF Failed(r.rt) THEN r
    ELSE Res(Log(r.rt, BlockEvent(rt, r, Len(r.rt.local_stack))), r.expect, r.flow))

\* block (runtime.rs:328-339).
block(rt, b) ==
    Let(block_loop(rt, b.expressions, 1, "Nothing"), LAMBDA r:
    IF Failed(r.rt) THEN r ELSE
    Let(IF r.flow.f = "Continue"
        THEN [r.rt EXCEPT !.local_stack = Truncate(@, Len(rt.local_stack))]
        ELSE r.rt,
        LAMBDA out:
        Res(Log(out, BlockEvent(rt, r, Len(out.local_stack))), r.expect, r.flow)))

\* The loops of object and array (runtime.rs:623-634, 640-646).
RECURSIVE object_loop(_, _, _, _)
object_loop(rt, kvs, i, obj) ==
    IF i > Len(kvs) THEN Push(rt, VObject(obj))
    ELSE Let(expression(rt, kvs[i].expr, Right), LAMBDA r:
         IF Failed(r.rt) THEN r.rt ELSE
         Let(Pop(r.rt), LAMBDA p:
         IF p.none THEN Panic(r.rt, "There is no value on the stack")
         ELSE IF kvs[i].key \in DOMAIN obj THEN Panic(p.rt, "Duplicate key in object")
         ELSE object_loop(p.rt, kvs, i + 1,
                  [k \in DOMAIN obj \cup {kvs[i].key} |->
                      IF k = kvs[i].key THEN p.v ELSE obj[k]])))

\* object (runtime.rs:621-636).
object(rt, obj) == object_loop(rt, obj.key_values, 1, EmptyObject)

RECURSIVE array_loop(_, _, _, _)
array_loop(rt, items, i, arr) ==
    IF i > Len(items) THEN Push(rt, VArray(arr))
    ELSE Let(expression(rt, items[i], Right), LAMBDA r:
         IF Failed(r.rt) THEN r.rt ELSE
         Let(Pop(r.rt), LAMBDA p:
         IF p.none THEN Panic(r.rt, "There is no value on the stack")
         ELSE array_loop(p.rt, items, i + 1, Append(arr, p.v))))

\* array (runtime.rs:638-648).
array(rt, arr) == array_loop(rt, arr.items, 1, <<>>)

----------------------------------------------------------------------------
(* Operand evaluation shared by compare, unop, binop, if_expr, call and    *)
(* the assignments: the `match self.expression(..)` with the three arms    *)
(* (_, Return) => return, (Something, Continue) => go on, _ => panic.      *)
(* Stops(r) tells that the caller returns r at once.                       *)

operand(rt, expr, side, msg) ==
    Let(expression(rt, expr, side), LAMBDA r:
        IF Failed(r.rt) \/ r.flow.f = "Return" THEN r
        ELSE IF r.expect = "Something" /\ r.flow.f = "Continue" THEN r
        ELSE Res(Panic(r.rt, msg), r.expect, r.flow))

Stops(r) == Failed(r.rt) \/ r.flow.f = "Return"

\* f64 arithmetic on the integers of the model: [ok, n].  A quotient that
\* is not an integer, and a division by zero, are outside the model.
Exp(a, b) == IF b = 0 THEN 1 ELSE IF b = 1 THEN a ELSE IF b = 2 THEN a * a ELSE a * a * a
NumOp(op, a, b) ==
    CASE op = "Set" -> [ok |-> TRUE, n |-> b]
      [] op = "Add" -> [ok |-> TRUE, n |-> a + b]
      [] op = "Sub" -> [ok |-> TRUE, n |-> a - b]
      [] op = "Mul" -> [ok |-> TRUE, n |-> a * b]
      [] op = "Div" -> IF a >= 0 /\ b > 0 /\ a % b = 0
                       THEN [ok |-> TRUE, n |-> a \div b]
                       ELSE [ok |-> FALSE, n |-> 0]
      [] op = "Rem" -> IF a >= 0 /\ b > 0 THEN [ok |-> TRUE, n |-> a % b]
                       ELSE [ok |-> FALSE, n |-> 0]
      [] op = "Pow" -> IF b \in 0..3 THEN [ok |-> TRUE, n |-> Exp(a, b)]
                       ELSE [ok |-> FALSE, n |-> 0]
      [] OTHER -> [ok |-> TRUE, n |-> a]

Unmodelled == "outside the model: f64 result that is not an integer"

\* unop (runtime.rs:1095-1113).
unop(rt, u, side) ==
    Let(operand(rt, u.expr, side, "Expected something from unary argument"), LAMBDA r:
    IF Stops(r) THEN r ELSE
    Let(Pop(r.rt), LAMBDA p:
    IF p.none THEN Fail(r.rt, "Expected unary argument")
    ELSE IF ~RefOk(p.rt.stack, p.v) THEN Fail(p.rt, "index out of bounds")
    ELSE IF resolve(p.rt.stack, p.v).t = "Bool"
         THEN Res(Push(p.rt, VBool(~resolve(p.rt.stack, p.v).b)),
                  "Something", FlowContinue)
         ELSE Fail(p.rt, "Invalid type, expected bool")))

\* The value computed by binop (runtime.rs:1129-1164), or a panic message.
ValueRes(msg, v) == [msg |-> msg, v |-> v]

binop_f64(op, a, b) ==
    IF op \notin {"Add", "Sub", "Mul", "Div", "Rem", "Pow"}
    THEN ValueRes("Unknown operator", VReturn)
    ELSE Let(NumOp(op, a, b), LAMBDA x:
             IF x.ok THEN ValueRes("", VF64(x.n)) ELSE ValueRes(Unmodelled, VReturn))

binop_value(op, l, r) ==
    CASE l.t = "F64" /\ r.t = "F64" -> binop_f64(op, l.n, r.n)
      [] l.t = "Bool" /\ r.t = "Bool" ->
            CASE op = "Add" -> ValueRes("", VBool(l.b \/ r.b))
              [] op = "Sub" -> ValueRes("", VBool(l.b /\ ~r.b))
              [] op = "Mul" -> ValueRes("", VBool(l.b /\ r.b))
              [] op = "Pow" -> ValueRes("", VBool(l.b # r.b))
              [] OTHER -> ValueRes("Unknown boolean operator", VReturn)
      [] l.t = "Text" /\ r.t = "Text" ->
            IF op = "Add" THEN ValueRes("", VText(l.s \o r.s))
            ELSE ValueRes("This operation can not be used with strings", VReturn)
      [] l.t = "Text" /\ r.t # "Text" ->
            ValueRes("The right argument must be a string", VReturn)
      [] OTHER -> ValueRes("Invalid type, expected numbers, bools or strings", VReturn)

\* binop (runtime.rs:1114-1168).
binop(rt, b, side) ==
    Let(operand(rt, b.left, side, "Expected something from left argument"), LAMBDA l:
    IF Stops(l) THEN l ELSE
    Let(operand(l.rt, b.right, side, "Expected something from right argument"), LAMBDA r:
    IF Stops(r) THEN r ELSE
    Let(Pop(r.rt), LAMBDA pr:
    IF pr.none THEN Fail(r.rt, "Expected right argument") ELSE
    Let(Pop(pr.rt), LAMBDA pl:
    IF pl.none THEN Fail(pr.rt, "Expected left argument")
    ELSE IF ~RefOk(pl.rt.stack, pl.v) \/ ~RefOk(pl.rt.stack, pr.v)
         THEN Fail(pl.rt, "index out of bounds") ELSE
    Let(binop_value(b.op, resolve(pl.rt.stack, pl.v), resolve(pl.rt.stack, pr.v)),
        LAMBDA v:
        IF v.msg # "" THEN Fail(pl.rt, v.msg)
        ELSE Res(Push(pl.rt, v.v), "Something", FlowContinue))))))

\* The order of two texts, as sequences of one-letter strings over "a".."c"
\* and " " (String's `<`).
Rank(ch) == CASE ch = " " -> 0 [] ch = "a" -> 1 [] ch = "b" -> 2 [] OTHER -> 3
RECURSIVE TextLess(_, _)
TextLess(a, b) ==
    IF b = <<>> THEN FALSE
    ELSE IF a = <<>> THEN TRUE
    ELSE IF Rank(Head(a)) # Rank(Head(b)) THEN Rank(Head(a)) < Rank(Head(b))
    ELSE TextLess(Tail(a), Tail(b))

\* The Bool computed by compare (runtime.rs:960-992), or a panic message.
compare_value(op, b, a) ==
    CASE a.t = "F64" /\ b.t = "F64" ->
            ValueRes("", CASE op = "Less" -> a.n < b.n
                           [] op = "LessOrEqual" -> a.n <= b.n
                           [] op = "Greater" -> a.n > b.n
                           [] op = "GreaterOrEqual" -> a.n >= b.n
                           [] op = "Equal" -> a.n = b.n
                           [] OTHER -> a.n # b.n)
      [] a.t = "Text" /\ b.t = "Text" ->
            ValueRes("", CASE op = "Less" -> TextLess(a.s, b.s)
                           [] op = "LessOrEqual" -> ~TextLess(b.s, a.s)
                           [] op = "Greater" -> TextLess(b.s, a.s)
                           [] op = "GreaterOrEqual" -> ~TextLess(a.s, b.s)
                           [] op = "Equal" -> a.s = b.s
                           [] OTHER -> a.s # b.s)
      [] a.t = "Bool" /\ b.t = "Bool" ->
            IF op = "Equal" THEN ValueRes("", a.b = b.b)
            ELSE IF op = "NotEqual" THEN ValueRes("", a.b # b.b)
            ELSE ValueRes("can not be used with bools", FALSE)
      [] OTHER -> ValueRes("Invalid type", FALSE)

\* compare (runtime.rs:945-998).
compare(rt, c) ==
    Let(operand(rt, c.left, Right, "Expected something from the left argument"), LAMBDA l:
    IF Stops(l) THEN l ELSE
    Let(operand(l.rt, c.right, Right, "Expected something from the right argument"),
        LAMBDA r:
    IF Stops(r) THEN r ELSE
    Let(Pop(r.rt), LAMBDA pb:
    Let(Pop(pb.rt), LAMBDA pa:
    IF pb.none \/ pa.none THEN Fail(r.rt, "Expected two variables on the stack")
    ELSE IF ~RefOk(pa.rt.stack, pa.v) \/ ~RefOk(pa.rt.stack, pb.v)
         THEN Fail(pa.rt, "index out of bounds") ELSE
    Let(compare_value(c.op, resolve(pa.rt.stack, pb.v), resolve(pa.rt.stack, pa.v)),
        LAMBDA v:
        IF v.msg # "" THEN Fail(pa.rt, v.msg)
        ELSE Res(Push(pa.rt, VBool(v.v)), "Something", FlowContinue))))))

\* if_expr (runtime.rs:999-1020).
if_expr(rt, e) ==
    Let(operand(rt, e.cond, Right, "Expected bool from if condition"), LAMBDA c:
    IF Stops(c) THEN c ELSE
    Let(Pop(c.rt), LAMBDA p:
    IF p.none THEN Fail(c.rt, "There is no value on the stack")
    ELSE IF p.v.t # "Bool" THEN Fail(p.rt, "Expected bool")
    ELSE IF ~p.v.b /\ e.else_block = None THEN Res(p.rt, "Nothing", FlowContinue)
    ELSE block(p.rt, IF p.v.b THEN e.true_block ELSE e.else_block[1])))

----------------------------------------------------------------------------
(* for_expr (runtime.rs:1021-1085).                                        *)

\* `same` for a loop that takes every label for its own.
same_label_any(label, fe) == TRUE

\* `&label == for_label` of runtime.rs:1041-1044 and 1056-1059.
same_label(label, fe) == fe.label # None /\ label = fe.label[1]

\* `Some(label)` with `!same` (runtime.rs:1039-1047, 1054-1063): the flow of
\* the body names a label that is not the label of this loop.
other_label(flow, fe) == flow.label # None /\ ~same_label(flow.label[1], fe)

\* The `break` out of `loop { .. }` with `flow` set, for the history.
for_exit(rt, fe, flow) ==
    Res(Log(rt, [ev |-> "for_exit", label |-> fe.label, flow |-> flow]),
        "Nothing", flow)

\* The end of one pass that goes on to the next: after the step s, with the
\* truncation of lines 1079-1080 unless the pass ended by `continue`.
for_next(s, fe, st, lc, by_continue) ==
    Log(IF by_continue THEN s.rt
        ELSE [s.rt EXCEPT !.stack = Truncate(@, st),
                          !.local_stack = Truncate(@, lc)],
        [ev |-> "for_step", label |-> fe.label, by_continue |-> by_continue])

\* What one pass of `loop { .. }` comes to: `again` tells that the loop
\* goes on with its next pass, from the runtime of r; else r is what the
\* loop ends with.
Pass(again, r) == [again |-> again, r |-> r]

\* One pass of `loop { .. }` (runtime.rs:1028-1081).  What the loop ends
\* with has the flow Return when for_expr returns from inside the loop, and
\* otherwise the value of `flow` at the `break`.
for_pass(rt, fe, st, lc) ==
    Let(expression(rt, fe.cond, Right), LAMBDA c:
    CASE Failed(c.rt) -> Pass(FALSE, c)
      [] c.rt.stack = <<>> -> Pass(FALSE, Fail(c.rt, "There is no value on the stack"))
      [] Last(c.rt.stack).t # "Bool" -> Pass(FALSE, Fail(Pop(c.rt).rt, "Expected bool"))
      [] ~Last(c.rt.stack).b -> Pass(FALSE, for_exit(Pop(c.rt).rt, fe, FlowContinue))
      [] OTHER ->
    Let(block(Pop(c.rt).rt, fe.block), LAMBDA b:
    CASE Failed(b.rt) -> Pass(FALSE, b)
      [] b.flow.f = "Return" -> Pass(FALSE, Res(b.rt, "Nothing", FlowReturn))
      [] b.flow.f = "Break" ->
            Pass(FALSE, for_exit(b.rt, fe, IF other_label(b.flow, fe)
                                           THEN FlowBreak(b.flow.label)
                                           ELSE FlowContinue))
      [] b.flow.f = "ContinueLoop" /\ other_label(b.flow, fe) ->
            Pass(FALSE, for_exit(b.rt, fe, FlowContinueLoop(b.flow.label)))
      [] OTHER ->
    Let(expression(b.rt, fe.step, Right), LAMBDA s:
    IF Failed(s.rt) THEN Pass(FALSE, s)
    ELSE Pass(TRUE, Res(for_next(s, fe, st, lc, b.flow.f = "ContinueLoop"),
                        "Nothing", FlowContinue)))))

\* `loop { .. }` (runtime.rs:1028-1081): pass after pass.
RECURSIVE for_loop(_, _, _, _, _)
RECURSIVE for_more(_, _, _, _, _)
for_more(p, fe, st, lc, fuel) ==
    IF p.again THEN for_loop(p.r.rt, fe, st, lc, fuel - 1) ELSE p.r

for_loop(rt, fe, st, lc, fuel) ==
    IF fuel = 0 THEN Fail(rt, "for-loop cut off")
    ELSE for_more(for_pass(rt, fe, st, lc), fe, st, lc, fuel)

\* for_expr without the truncation after the loop.
for_expr_keeps_stack(rt, fe) ==
    Let(expression(rt, fe.init, Right), LAMBDA i:
    IF Failed(i.rt) THEN i
    ELSE for_loop(i.rt, fe, Len(i.rt.stack), Len(i.rt.local_stack), MaxIter))

\* for_expr (runtime.rs:1021-1085).
for_expr(rt, fe) ==
    Let(expression(rt, fe.init, Right), LAMBDA i:
    IF Failed(i.rt) THEN i ELSE
    Let(for_loop(i.rt, fe, Len(i.rt.stack), Len(i.rt.local_stack), MaxIter), LAMBDA r:
    IF Failed(r.rt) \/ r.flow.f = "Return" THEN r
    ELSE Res([r.rt EXCEPT !.stack = Truncate(@, Len(rt.stack)),
                          !.local_stack = Truncate(@, Len(rt.local_stack))],
             "Nothing", r.flow)))

----------------------------------------------------------------------------
(* call (runtime.rs:341-619).                                              *)

\* The argument loops (runtime.rs:347-353, 554-560).  The result's flow is
\* Return when call returns at once with the flow of an argument.
RECURSIVE call_args(_, _, _)
call_args(rt, args, i) ==
    IF i > Len(args) THEN Res(rt, "Nothing", FlowContinue)
    ELSE Let(operand(rt, args[i], Right, "Expected something from argument"), LAMBDA r:
             IF Stops(r) THEN r ELSE call_args(r.rt, args, i + 1))

\* print_variable (runtime.rs:181-220): "" when it prints, else the panic.
RECURSIVE print_variable(_, _, _)
print_variable(stk, v, fuel) ==
    IF fuel = 0 THEN "print_variable does not terminate"
    ELSE IF ~RefOk(stk, v) THEN "index out of bounds"
    ELSE Let(resolve(stk, v), LAMBDA x:
         CASE x.t \in {"Text", "F64", "Bool"} -> ""
           [] x.t = "Ref" -> print_variable(stk, x, fuel - 1)
           [] x.t = "Object" ->
                 Let({print_variable(stk, x.o[k], fuel - 1) : k \in DOMAIN x.o} \ {""},
                     LAMBDA bad: IF bad = {} THEN "" ELSE CHOOSE m \in bad : TRUE)
           [] x.t = "Array" ->
                 Let({print_variable(stk, x.a[i], fuel - 1) : i \in 1..Len(x.a)} \ {""},
                     LAMBDA bad: IF bad = {} THEN "" ELSE CHOOSE m \in bad : TRUE)
           [] OTHER -> "Could not print out")

\* The body of a built-in between its push_fn and pop_fn, on the runtime
\* after push_fn: pops the argument, computes, pushes the result.
builtin_clone(rt) ==
    Let(Pop(rt), LAMBDA p:
    IF p.none THEN Panic(rt, "There is no value on the stack")
    ELSE IF ~RefOk(p.rt.stack, p.v) THEN Panic(p.rt, "index out of bounds") ELSE
    Let(deep_clone(resolve(p.rt.stack, p.v), p.rt.stack), LAMBDA v:
    IF v.t = "Bad" THEN Panic(p.rt, v.why) ELSE Push(p.rt, v)))

builtin_print(rt) ==
    Let(Pop(rt), LAMBDA p:
    IF p.none THEN Panic(rt, "There is no value on the stack") ELSE
    Let(print_variable(p.rt.stack, p.v, MaxDepth), LAMBDA msg:
    IF msg # "" THEN Panic(p.rt, msg) ELSE p.rt))

builtin_len(rt) ==
    Let(Pop(rt), LAMBDA p:
    IF p.none THEN Panic(rt, "There is no value on the stack")
    ELSE IF ~RefOk(p.rt.stack, p.v) THEN Panic(p.rt, "index out of bounds") ELSE
    Let(resolve(p.rt.stack, p.v), LAMBDA v:
    IF v.t # "Array" THEN Panic(p.rt, "Expected array")
    ELSE Push(p.rt, VF64(Len(v.a)))))

\* `a.sqrt()` where the root is a whole number; other roots are outside
\* the integers of the model.
Sqrt(a) ==
    IF a >= 0 /\ \E r \in 0..a : r * r = a
    THEN [ok |-> TRUE, n |-> CHOOSE r \in 0..a : r * r = a]
    ELSE [ok |-> FALSE, n |-> 0]

\* unary_f64 (runtime.rs:222-231), for sqrt.
unary_f64(rt) ==
    Let(Pop(rt), LAMBDA p:
    IF p.none THEN Fail(rt, "There is no value on the stack")
    ELSE IF ~RefOk(p.rt.stack, p.v) THEN Fail(p.rt, "index out of bounds") ELSE
    Let(resolve(p.rt.stack, p.v), LAMBDA v:
    IF v.t # "F64" THEN Fail(p.rt, "Expected number")
    ELSE IF ~Sqrt(v.n).ok THEN Fail(p.rt, Unmodelled)
    ELSE Res(Push(p.rt, VF64(Sqrt(v.n).n)), "Something", FlowContinue)))

\* sleep and round (runtime.rs:395-407, 415-426): `match self.stack.pop()`
\* with the arm Some(Variable::F64(b)); the round of a whole number is the
\* number.
builtin_f64(rt, name) ==
    Let(Pop(rt), LAMBDA p:
    IF p.none THEN Panic(rt, "There is no value on the stack")
    ELSE IF p.v.t # "F64" THEN Panic(p.rt, "Expected number")
    ELSE IF name = "round" THEN Push(p.rt, VF64(p.v.n))
    ELSE p.rt)

\* `while let Some(ch) = w.pop() { if !ch.is_whitespace() { w.push(ch); break; } }`
RECURSIVE TrimRight(_)
TrimRight(w) ==
    IF w = <<>> THEN w
    ELSE IF Last(w) # " " THEN w
    ELSE TrimRight(Front(w))

\* The number the first line of the standard input parses to.
stdin_number == 7

\* trim_right and read_number (runtime.rs:463-506): `match self.stack.pop()`
\* with the arm Some(Variable::Text(t)).
builtin_text(rt, name) ==
    Let(Pop(rt), LAMBDA p:
    IF p.none THEN Panic(rt, "There is no value on the stack")
    ELSE IF p.v.t # "Text" THEN Panic(p.rt, "Expected text")
    ELSE IF name = "trim_right" THEN Push(p.rt, VText(TrimRight(p.v.s)))
    ELSE Push(p.rt, VF64(stdin_number)))

\* format!("{}", v) of a whole number.
Digit(d) == <<"0", "1", "2", "3", "4", "5", "6", "7", "8", "9">>[d + 1]
RECURSIVE Digits(_)
Digits(n) ==
    IF n < 0 THEN <<"-">> \o Digits(0 - n)
    ELSE IF n < 10 THEN <<Digit(n)>>
    ELSE Append(Digits(n \div 10), Digit(n % 10))

\* to_string (runtime.rs:507-523).
builtin_to_string(rt) ==
    Let(Pop(rt), LAMBDA p:
    IF p.none THEN Panic(rt, "There is no value on the stack")
    ELSE IF ~RefOk(p.rt.stack, p.v) THEN Panic(p.rt, "index out of bounds") ELSE
    Let(resolve(p.rt.stack, p.v), LAMBDA v:
    CASE v.t = "Text" -> Push(p.rt, VText(v.s))
      [] v.t = "F64" -> Push(p.rt, VText(Digits(v.n)))
      [] OTHER -> Panic(p.rt, "not implemented")))

\* The arm of a built-in after its arguments (runtime.rs:354-538).
builtin(rt, name, st, lc) ==
    CASE name = "clone" ->
            Res(pop_fn(builtin_clone(push_fn(rt, name, st + 1, lc)), name),
                "Something", FlowContinue)
      [] name \in {"println", "print"} ->
            Res(pop_fn(builtin_print(push_fn(rt, name, st, lc)), name),
                "Nothing", FlowContinue)
      [] name = "len" ->
            Res(pop_fn(builtin_len(push_fn(rt, name, st + 1, lc)), name),
                "Something", FlowContinue)
      \* `self.rng.gen()` is a number in [0, 1): 0 in the integers of the model
      [] name = "random" ->
            Res(pop_fn(Push(push_fn(rt, name, st + 1, lc), VF64(0)), name),
                "Something", FlowContinue)
      [] name = "sqrt" -> unary_f64(rt)
      [] name = "sleep" ->
            Res(pop_fn(builtin_f64(push_fn(rt, name, st, lc), name), name),
                "Nothing", FlowContinue)
      [] name = "round" ->
            Res(pop_fn(builtin_f64(push_fn(rt, name, st + 1, lc), name), name),
                "Something", FlowContinue)
      [] name \in {"trim_right", "read_number"} ->
            Res(pop_fn(builtin_text(push_fn(rt, name, st + 1, lc), name), name),
                "Something", FlowContinue)
      [] name = "to_string" ->
            Res(pop_fn(builtin_to_string(push_fn(rt, name, st + 1, lc)), name),
                "Something", FlowContinue)
      [] name \in {"debug", "backtrace"} ->
            Res(pop_fn(push_fn(rt, name, st, lc), name), "Nothing", FlowContinue)
      [] OTHER -> Fail(rt, "Unknown function")

\* The built-in arm of call (runtime.rs:344-540).
call_builtin(rt, c) ==
    Let(call_args(rt, c.args, 1), LAMBDA a:
        IF Stops(a) THEN a
        ELSE builtin(a.rt, c.name, Len(rt.stack), Len(rt.local_stack)))

\* The binding of `return` (runtime.rs:562-564).
bind_return(rt, f, st) ==
    IF f.returns
    THEN [rt EXCEPT !.local_stack = Append(@, [name |-> "return", id |-> st - 1])]
    ELSE rt

\* The slot a parameter is bound to, always that of the argument itself.
arg_slot_own(stk, j) == j

\* The slot a parameter is bound to (runtime.rs:567-570): the slot a
\* reference argument refers to, else the slot j of the argument.
arg_slot(stk, j) ==
    IF At(stk, j).t = "Ref" THEN At(stk, j).ind ELSE j

\* The parameter bindings (runtime.rs:565-572), from parameter i on.
RECURSIVE bind_args(_, _, _, _)
bind_args(rt, names, st, i) ==
    IF i > Len(names) THEN rt
    ELSE IF st + (i - 1) >= Len(rt.stack) THEN Panic(rt, "index out of bounds")
    ELSE bind_args([rt EXCEPT !.local_stack =
                        Append(@, [name |-> names[i],
                                   id |-> arg_slot(rt.stack, st + (i - 1))])],
                   names, st, i + 1)

\* No check of the flow of the body.
body_flow_unchecked(flow) == ""

\* The check of the flow of the body (runtime.rs:575-585): the panic, or "".
body_flow_check(flow) ==
    CASE flow.f = "Break" /\ flow.label = None -> "Can not break from function"
      [] flow.f = "ContinueLoop" /\ flow.label = None -> "Can not continue from function"
      [] flow.f \in {"Break", "ContinueLoop"} -> "There is no loop labeled"
      [] OTHER -> ""

\* The end of a user call without the look at the return slot.
call_exit_unchecked(rt, f, x) ==
    Res(rt, IF f.returns THEN "Something" ELSE x, FlowContinue)

\* The end of a user call after pop_fn (runtime.rs:587-614).
call_exit(rt, f, x) ==
    CASE f.returns /\ x = "Nothing" ->
            IF rt.stack = <<>>
            THEN Res(Panic(rt, "There is no value on the stack"), x, FlowContinue)
            ELSE IF Last(rt.stack) = VReturn
                 THEN Res(Panic(rt, "Function did not return a value"), x, FlowContinue)
                 ELSE Res(rt, "Something", FlowContinue)
      [] ~f.returns /\ x = "Something" ->
            Res(Panic(rt, "Function should not return a value"), x, FlowContinue)
      [] f.returns /\ x = "Something" /\ rt.stack = <<>> ->
            Res(Panic(rt, "There is no value on the stack"), x, FlowContinue)
      [] f.returns /\ x = "Something" /\ rt.stack # <<>> /\ Last(rt.stack) = VReturn ->
            Res(Panic(rt, "Function did not return a value"), x, FlowContinue)
      [] OTHER -> Res(rt, x, FlowContinue)

\* What the body of a user call returned (with the value of the return
\* slot then), and what a completed user call did, for the history.
BodyEvent(rt, name, f, b) ==
    [ev |-> "body", name |-> name, returns |-> f.returns, flow |-> b.flow,
     expect |-> b.expect,
     slot |-> IF f.returns /\ Len(rt.stack) < Len(b.rt.stack)
              THEN At(b.rt.stack, Len(rt.stack)) ELSE VReturn]

CallEvent(rt, name, f, r) ==
    [ev |-> "call", name |-> name, returns |-> f.returns,
     st_in |-> Len(rt.stack), lc_in |-> Len(rt.local_stack),
     st_out |-> Len(r.rt.stack), lc_out |-> Len(r.rt.local_stack),
     top |-> IF r.rt.stack = <<>> THEN VReturn ELSE Last(r.rt.stack),
     expect |-> r.expect, flow |-> r.flow]

\* The end of a user call, from the result b of the body on
\* (runtime.rs:574-614).
call_return(b, name, f) ==
    Let(body_flow_check(b.flow), LAMBDA msg:
        IF msg # "" THEN Res(Panic(b.rt, msg), b.expect, b.flow)
        ELSE call_exit(pop_fn(b.rt, name), f, b.expect))

\* The frame of a user call (runtime.rs:561-572): push_fn and the bindings,
\* on the runtime after the arguments.
call_enter(rt, c, f, st, lc) ==
    bind_args(bind_return(push_fn(rt, c.name, st, lc), f, st), f.args, st, 1)

\* The body of a user call and its end (runtime.rs:573-616), on the runtime
\* rt1 after call_enter; rt is the runtime at the call.
call_body(rt, rt1, c, f) ==
    Let(block(rt1, f.block), LAMBDA b:
    IF Failed(b.rt) THEN b ELSE
    Let(call_return(Res(Log(b.rt, BodyEvent(rt, c.name, f, b)), b.expect, b.flow), c.name, f),
        LAMBDA r:
        IF Failed(r.rt) THEN r
        ELSE Res(Log(r.rt, CallEvent(rt, c.name, f, r)), r.expect, r.flow)))

\* The user-function arm of call (runtime.rs:541-617).
call_user(rt, c, f) ==
    IF Len(c.args) # Len(f.args) THEN Fail(rt, "Expected arguments but found") ELSE
    Let(IF f.returns THEN Push(rt, VReturn) ELSE rt, LAMBDA rt0:
    Let(call_args(rt0, c.args, 1), LAMBDA a:
    IF Stops(a) THEN a ELSE
    Let(call_enter(a.rt, c, f, Len(rt0.stack), Len(rt0.local_stack)), LAMBDA rt1:
    IF Failed(rt1) THEN Res(rt1, "Nothing", FlowContinue)
    ELSE call_body(rt, rt1, c, f))))

call(rt, c) ==
    IF c.name \in DOMAIN functions THEN call_user(rt, c, functions[c.name])
    ELSE call_builtin(rt, c)

----------------------------------------------------------------------------
(* item (runtime.rs:866-944).                                              *)

\* The pre-evaluation of the bracket expressions (runtime.rs:883-887); the
\* result of each `self.expression` is dropped.
RECURSIVE item_brackets(_, _, _)
item_brackets(rt, ids, i) ==
    IF i > Len(ids) \/ Failed(rt) THEN rt
    ELSE item_brackets(IF ids[i].id = "Expression"
                       THEN expression(rt, ids[i].e, Right).rt ELSE rt,
                       ids, i + 1)

\* `local_stack.len() - call_stack.last().unwrap().2`
frame_locals(rt) == Len(rt.local_stack) - Last(rt.call_stack).lc

\* The search of the name among the locals of the frame (runtime.rs:869-877,
\* 893-902): the panic message, or "" and the position i of the binding in
\* local_stack (0 if there is none).
LocalRes(msg, i) == [msg |-> msg, i |-> i]

item_local(rt, name) ==
    IF rt.call_stack = <<>> THEN LocalRes("unwrap on a None value", 0)
    ELSE IF frame_locals(rt) < 0 THEN LocalRes("attempt to subtract with overflow", 0)
    ELSE LocalRes("", find_local(rt.local_stack, frame_locals(rt), name))

\* The bare name (runtime.rs:869-879).
item_name(rt, it) ==
    Let(item_local(rt, it.name), LAMBDA l:
        IF l.msg # "" THEN Panic(rt, l.msg)
        ELSE IF l.i = 0 THEN Panic(rt, "Could not find local variable")
        ELSE Push(rt, VRef(rt.local_stack[l.i].id)))

\* A walk that pushes the handle on either side.
item_walk_raw(rt, it, side, id, start_stack_len) ==
    IF id >= Len(rt.stack) THEN Panic(rt, "index out of bounds") ELSE
    Let(lookup_path(Ptr(id, <<>>), rt.stack, it.ids, 1, start_stack_len, 0, side.insert),
        LAMBDA r:
        IF r.panic # "" THEN Panic([rt EXCEPT !.stack = r.stack], r.panic)
        ELSE Push([rt EXCEPT !.stack = Truncate(r.stack, start_stack_len)],
                  VUnsafeRef(r.var)))

\* The walk from the slot id of the name and the push of the result
\* (runtime.rs:903-936).
item_walk(rt, it, side, id, start_stack_len) ==
    IF id >= Len(rt.stack) THEN Panic(rt, "index out of bounds") ELSE
    Let(lookup_path(Ptr(id, <<>>), rt.stack, it.ids, 1, start_stack_len, 0, side.insert),
        LAMBDA r:
        IF r.panic # "" THEN Panic([rt EXCEPT !.stack = r.stack], r.panic)
        ELSE Push([rt EXCEPT !.stack = Truncate(r.stack, start_stack_len)],
                  IF side.side = "Right" THEN Deref(r.stack, r.var)
                  ELSE VUnsafeRef(r.var)))

\* The path (runtime.rs:881-943).
item_path(rt, it, side) ==
    Let(item_brackets(rt, it.ids, 1), LAMBDA rt1:
    IF Failed(rt1) THEN rt1 ELSE
    Let(item_local(rt1, it.name), LAMBDA l:
    IF l.msg # "" THEN Panic(rt1, l.msg)
    \* no binding of the name: the loop ends and item returns
    ELSE IF l.i = 0 THEN rt1 ELSE
    Let(rt1.local_stack[l.i].id, LAMBDA id:
    IF id >= Len(rt1.stack) THEN Panic(rt1, "index out of bounds")
    ELSE item_walk(rt1, it, side,
                   IF At(rt1.stack, id).t = "Ref" THEN At(rt1.stack, id).ind ELSE id,
                   Len(rt.stack)))))

item(rt, it, side) ==
    IF Len(it.ids) = 0 THEN item_name(rt, it) ELSE item_path(rt, it, side)

----------------------------------------------------------------------------
(* assign_specific (runtime.rs:654-862).                                   *)

\* The outcome of the typed dispatch: the stack after the write, or the
\* panic message.
Written(stk) == [msg |-> "", stack |-> stk]
NotWritten(stk, msg) == [msg |-> msg, stack |-> stk]

\* The arms `Variable::Return => if let Set = op { *r = .. } else { panic }`.
into_return(stk, op, r, new) ==
    IF op = "Set" THEN Written(Store(stk, r, new))
    ELSE NotWritten(stk, "Return has no value")

\* `n_addr != obj_addr` (runtime.rs:805-808, 833-836): b resolves to the very
\* slot r points at.
same_addr(r, b) == b.t = "Ref" /\ r = Ptr(b.ind, <<>>)

\* The arm of a number (runtime.rs:732-757).
assign_f64(stk, op, r, n, v) ==
    CASE n.t = "F64" ->
            IF op = "Assign" THEN Written(stk)
            ELSE Let(NumOp(op, n.n, v.n), LAMBDA x:
                     IF x.ok THEN Written(Store(stk, r, VF64(x.n)))
                     ELSE NotWritten(stk, Unmodelled))
      [] n.t = "Return" -> into_return(stk, op, r, VF64(v.n))
      [] OTHER -> NotWritten(stk, "Expected assigning to a number")

\* The arms of an object and of an array (runtime.rs:799-854): `*r =
\* b.clone()` stores b, not the value b resolves to.
assign_container(stk, op, r, n, v, b) ==
    CASE n.t = v.t ->
            IF op # "Set" THEN NotWritten(stk, "not implemented")
            ELSE IF same_addr(r, b) THEN Written(stk)
            ELSE Written(Store(stk, r, b))
      [] n.t = "Return" -> into_return(stk, op, r, v)
      [] OTHER -> NotWritten(stk, IF v.t = "Object" THEN "Expected assigning to object"
                                  ELSE "Expected assigning to array")

\* A dispatch that stores the right value whatever the target holds.
typed_assign_any(stk, op, r, b, v, n) == Written(Store(stk, r, v))

\* A dispatch whose `+=` on a text appends in the buffer without the copy
\* of Arc::make_mut: every slot that shares the buffer shows the result.
typed_assign_in_place(stk, op, r, b, v, n) ==
    IF v.t # "Text" \/ n.t # "Text" THEN NotWritten(stk, "not implemented")
    ELSE IF op = "Set" THEN Written(Store(stk, r, VText(v.s)))
    ELSE IF op = "Add"
         THEN Written([i \in DOMAIN stk |->
                          IF stk[i] = n THEN VText(n.s \o v.s) ELSE stk[i]])
    ELSE NotWritten(stk, "not implemented")

\* The typed dispatch (runtime.rs:731-856): the stack after the write
\* through r, or the panic.  b is the right operand as popped, r the pointer,
\* v the value b resolves to and n the value r points at.
typed_assign(stk, op, r, b, v, n) ==
    CASE v.t = "F64" -> assign_f64(stk, op, r, n, v)
      [] v.t = "Bool" ->
            CASE n.t = "Bool" ->
                    IF op = "Set" THEN Written(Store(stk, r, VBool(v.b)))
                    ELSE NotWritten(stk, "not implemented")
              [] n.t = "Return" -> into_return(stk, op, r, VBool(v.b))
              [] OTHER -> NotWritten(stk, "Expected assigning to a bool")
      [] v.t = "Text" ->
            CASE n.t = "Text" ->
                    IF op = "Set" THEN Written(Store(stk, r, VText(v.s)))
                    ELSE IF op = "Add" THEN Written(Store(stk, r, VText(n.s \o v.s)))
                    ELSE NotWritten(stk, "not implemented")
              [] n.t = "Return" -> into_return(stk, op, r, VText(v.s))
              [] OTHER -> NotWritten(stk, "Expected assigning to text")
      [] v.t \in {"Object", "Array"} -> assign_container(stk, op, r, n, v, b)
      [] OTHER -> NotWritten(stk, "not implemented")

\* A declaring assignment with a path that is rejected.
assign_insert_rejected(rt, left, v) == Fail(rt, "Expected a name without path")

\* The declaring assignment with a path (runtime.rs:677-689), on the runtime
\* after the pop of the right side v.
assign_insert(rt, left, v) ==
    Let(operand(rt, left, LeftInsert(TRUE), "Expected something from the left side"),
        LAMBDA l:
    IF Stops(l) THEN l ELSE
    Let(Pop(l.rt), LAMBDA q:
    IF q.none THEN Fail(l.rt, "There is no value on the stack")
    ELSE IF q.v.t # "UnsafeRef" THEN Fail(q.rt, "Expected unsafe reference")
    ELSE Res([q.rt EXCEPT !.stack = Store(@, q.v.p, v)], "Nothing", FlowContinue)))

\* The declaring assignment of a bare name (runtime.rs:690-693).
assign_local(rt, name, v) ==
    [rt EXCEPT !.local_stack = Append(@, [name |-> name, id |-> Len(rt.stack)]),
               !.stack = Append(@, v)]

\* The declaring assignment, `:=` (runtime.rs:663-697).
assign_declare(rt, left, right) ==
    IF left.k # "Item" THEN Fail(rt, "Expected item") ELSE
    Let(operand(rt, right, Right, "Expected something from the right side"), LAMBDA r:
    IF Stops(r) THEN r ELSE
    Let(Pop(r.rt), LAMBDA p:
    IF p.none THEN Fail(r.rt, "There is no value on the stack")
    ELSE IF ~RefOk(p.rt.stack, p.v) THEN Fail(p.rt, "index out of bounds")
    \* `Some(Variable::Ref(ind)) => self.stack[ind].clone()`
    ELSE IF Len(left.ids) # 0
         THEN assign_insert(p.rt, left, resolve(p.rt.stack, p.v))
    ELSE Res(assign_local(p.rt, left.name, resolve(p.rt.stack, p.v)),
             "Nothing", FlowContinue)))

\* The pointer r of an updating assignment and the stack after the shallow
\* clone (runtime.rs:714-729): a is the left operand as popped.
PointerRes(msg, r, stk) == [msg |-> msg, r |-> r, stack |-> stk]

\* A pointer that follows the StackRef in the target slot instead of
\* replacing it.
assign_pointer_follow(stk, a) ==
    CASE a.t = "Ref" -> PointerRes("", Ptr(a.ind, <<>>), stk)
      [] a.t = "UnsafeRef" ->
            Let(Deref(stk, a.p), LAMBDA x:
                IF x.t # "Ref" THEN PointerRes("", a.p, stk)
                ELSE PointerRes("", Ptr(x.ind, <<>>), stk))
      [] OTHER -> PointerRes("Expected reference", Ptr(0, <<>>), stk)

assign_pointer(stk, a) ==
    CASE a.t = "Ref" ->
            IF a.ind < Len(stk) THEN PointerRes("", Ptr(a.ind, <<>>), stk)
            ELSE PointerRes("index out of bounds", Ptr(0, <<>>), stk)
      [] a.t = "UnsafeRef" ->
            Let(Deref(stk, a.p), LAMBDA x:
                IF x.t # "Ref" THEN PointerRes("", a.p, stk)
                ELSE IF x.ind < Len(stk)
                     THEN PointerRes("", a.p, Store(stk, a.p, At(stk, x.ind)))
                     ELSE PointerRes("index out of bounds", a.p, stk))
      [] OTHER -> PointerRes("Expected reference", Ptr(0, <<>>), stk)

\* The write of an updating assignment (runtime.rs:713-857), on the runtime
\* after the two pops: a is the left operand, b the right one.
assign_write(rt, op, a, b) ==
    Let(assign_pointer(rt.stack, a), LAMBDA pt:
    IF pt.msg # "" THEN Fail(rt, pt.msg)
    ELSE IF ~RefOk(pt.stack, b)
         THEN Fail([rt EXCEPT !.stack = pt.stack], "index out of bounds") ELSE
    Let(typed_assign(pt.stack, op, pt.r, b, resolve(pt.stack, b), Deref(pt.stack, pt.r)),
        LAMBDA w:
        IF w.msg # "" THEN Fail([rt EXCEPT !.stack = pt.stack], w.msg)
        ELSE Res([rt EXCEPT !.stack = w.stack], "Nothing", FlowContinue)))

\* A left side that inserts the key for a plain `=`.
update_side_insert(op) == LeftInsert(op = "Set")

\* The side of the left operand of an updating assignment (runtime.rs:707).
update_side(op) == LeftInsert(FALSE)

\* An updating assignment that evaluates its left side first.
assign_update_left_first(rt, op, left, right) ==
    Let(operand(rt, left, update_side(op), "Expected something from the left side"),
        LAMBDA l:
    IF Stops(l) THEN l ELSE
    Let(operand(l.rt, right, Right, "Expected something from the right side"), LAMBDA r:
    IF Stops(r) THEN r ELSE
    Let(Pop(r.rt), LAMBDA pb:
    Let(Pop(pb.rt), LAMBDA pa:
    IF pa.none \/ pb.none THEN Fail(r.rt, "Expected two variables on the stack")
    ELSE assign_write(pa.rt, op, pa.v, pb.v)))))

\* The updating assignment (runtime.rs:698-861).
assign_update(rt, op, left, right) ==
    Let(operand(rt, right, Right, "Expected something from the right side"), LAMBDA r:
    IF Stops(r) THEN r ELSE
    Let(operand(r.rt, left, update_side(op), "Expected something from the left side"),
        LAMBDA l:
    IF Stops(l) THEN l ELSE
    Let(Pop(l.rt), LAMBDA pa:
    Let(Pop(pa.rt), LAMBDA pb:
    IF pa.none \/ pb.none THEN Fail(l.rt, "Expected two variables on the stack")
    ELSE assign_write(pb.rt, op, pa.v, pb.v)))))

assign_specific(rt, op, left, right) ==
    IF op = "Assign" THEN assign_declare(rt, left, right)
    ELSE assign_update(rt, op, left, right)

----------------------------------------------------------------------------
(* The state machine: Runtime::run has called `main` (runtime.rs:310-326), *)
(* call has pushed main's frame, and block is in its loop over the         *)
(* expressions of main's body.  One step evaluates the next expression of  *)
(* the body.  The body is any program that opens with the declarations of  *)
(* a preamble and goes on with up to MaxOps expressions of a catalogue.    *)

main == Function("main", <<>>, FALSE, Block(<<>>))

Runtime == [stack |-> stack, local_stack |-> local_stack, call_stack |-> call_stack,
            panic |-> "", trace |-> <<>>]

NoObs == [expr |-> Block(<<>>), stack0 |-> <<>>, local0 |-> <<>>,
          expect |-> "Nothing", flow |-> FlowContinue, trace |-> <<>>]

Init ==
    /\ stack = <<>>
    /\ local_stack = <<>>
    /\ call_stack = <<[name |-> "main", st |-> 0, lc |-> 0]>>
    /\ panicked = ""
    /\ prog = <<>>
    /\ obs = NoObs

Running == panicked = "" /\ call_stack # <<>>

\* One pass of the loop of main's block over e (runtime.rs:331-336): the
\* result r of the expression and, when its flow ends the block, the runtime
\* after call's handling of that flow (runtime.rs:574-614).
Eval(rt, e) ==
    Let(expression(rt, e, Right), LAMBDA r:
        [r |-> r,
         rt |-> IF Failed(r.rt) \/ r.flow.f = "Continue" THEN r.rt
                ELSE call_return(r, "main", main).rt])

\* The next expression of main's body is e.
Step(e) ==
    /\ Running
    /\ \E x \in {Eval(Runtime, e)} :
           /\ stack' = x.rt.stack
           /\ local_stack' = x.rt.local_stack
           /\ call_stack' = x.rt.call_stack
           /\ panicked' = x.rt.panic
           /\ obs' = [expr |-> e, stack0 |-> stack, local0 |-> local_stack,
                      expect |-> x.r.expect, flow |-> x.r.flow, trace |-> x.r.rt.trace]
    /\ prog' = Append(prog, e)

\* The next expression is the next declaration of the preamble, or, after
\* the preamble, one of the expressions ops, of which the body has up to n.
Exec(preamble, ops, n) ==
    /\ Len(prog) < Len(preamble) + n
    /\ \E e \in IF Len(prog) < Len(preamble) THEN preamble[Len(prog) + 1] ELSE ops :
           Step(e)

\* main's body has ended: block truncates the locals (runtime.rs:337) and
\* call pops the frame (runtime.rs:586-614).
Finish ==
    /\ Running
    /\ \E x \in {call_return(Res([Runtime EXCEPT !.local_stack =
                                      Truncate(@, Last(call_stack).lc)],
                                 obs.expect, FlowContinue),
                             "main", main)} :
           /\ stack' = x.rt.stack
           /\ local_stack' = x.rt.local_stack
           /\ call_stack' = x.rt.call_stack
           /\ panicked' = x.rt.panic
    /\ UNCHANGED <<prog, obs>>

----------------------------------------------------------------------------
(* Reading the history.                                                    *)

\* The events of one kind that the last expression of main's body left.
Events(kind) == {obs.trace[i] : i \in {j \in DOMAIN obs.trace : obs.trace[j].ev = kind}}

\* The evaluations of expressions during the last expression of main's
\* body, in the order they ended (an expression after its sub-expressions).
ExprEvents == SelectSeq(obs.trace, LAMBDA ev : ev.ev = "expr")

\* The slot of main's most recent binding of name in the local stack ls, and
\* the value it holds on the stack stk.
Bound(ls, name) == find_local(ls, Len(ls), name) # 0
SlotOf(ls, name) == ls[find_local(ls, Len(ls), name)].id
Held(stk, ls, name) == At(stk, SlotOf(ls, name))

\* The last expression of main's body ran to its end without a panic.
Completed == Len(prog) > 0 /\ panicked = ""

----------------------------------------------------------------------------
(* The programs of Spec: expressions of every kind, over three locals.     *)

\* x := 1; a := [x, 2]; o := {p: 1, q: [3]}
Locals ==
    << {Declare("x", Number(1))},
       {Declare("a", Array(<<Var("x"), Number(2)>>))},
       {Declare("o", Object(<<KV("p", Number(1)), KV("q", Array(<<Number(3)>>))>>))} >>

Literals == {Number(5), Text(<<"a", "b">>), Bool(TRUE),
             Object(<<KV("p", Var("x"))>>), Array(<<Var("x"), Number(2)>>)}

Items == {Var("x"), Ix("a", 0), Ix("a", 1), Dot("o", "p"), Dot("o", "q"),
          Item("o", <<IdString("q"), IdExpression(Number(0))>>),
          \* no binding of the name
          Var("zz"), Ix("zz", 0), Item("zz", <<IdExpression(Number(0))>>)}

Operations == {UnOp("Neg", Bool(TRUE)), BinOp("Add", Var("x"), Number(1)),
               Compare("Less", Var("x"), Number(2)),
               Compare("Equal", Text(<<"a">>), Text(<<"a">>))}

Declarations == {Declare("y", Var("x")), Declare("x", Number(7)),
                 Declare("f", Bool(TRUE)),
                 Declare("b", Var("a"))}

Updates == {Set(Var("x"), Number(3)), Assign("Add", Var("x"), Number(1)),
            Set(Ix("a", 0), Number(9)), Set(Dot("o", "p"), Number(4)),
            Assign("Mul", Ix("a", 1), Var("x")),
            \* the index expression of the left side changes the local
            \* that the right side names
            Set(Item("a", <<IdExpression(Call("bump", <<Var("x")>>))>>), Var("x")),
            Assign("Assign", Item("a", <<IdExpression(Call("bump", <<Var("x")>>))>>),
                   Var("x")),
            \* the array is given an array that names it
            Set(Var("a"), Array(<<Var("a")>>)),
            \* both sides make a call
            Set(Item("a", <<IdExpression(Call("bump", <<Var("x")>>))>>),
                Call("sq", <<Var("x")>>))}

Calls == {Call("sq", <<Var("x")>>), Call("sq", <<Number(3)>>),
          Call("add", <<Call("sq", <<Var("x")>>), Number(1)>>),
          Call("add", <<Call("sq", <<Var("x")>>), Call("shadow", <<>>)>>),
          Call("inc", <<Var("x")>>), Call("inc", <<Number(1)>>),
          Call("put", <<Var("o")>>), Call("void", <<Var("a")>>),
          Call("early", <<Number(1)>>), Call("early", <<Var("x")>>),
          Call("early", <<Number(5)>>),
          Call("maybe", <<Var("x")>>), Call("maybe", <<Number(2)>>),
          Call("peek", <<>>), Call("noret", <<>>),
          \* returns an array with a StackRef to a local of its own
          Call("mk", <<>>),
          \* stores what its unset return slot holds in the caller's object
          Call("stash", <<Var("o")>>),
          \* a `return` in a sub-expression with siblings
          Call("in_array", <<Number(1)>>), Call("in_object", <<Number(1)>>),
          Call("in_init", <<Number(1)>>), Call("in_bracket", <<Number(1)>>), Call("shadow", <<>>), Call("own", <<>>),
          Call("clone", <<Var("a")>>), Call("println", <<Var("o")>>),
          Call("println", <<Var("a")>>),
          Call("len", <<Var("a")>>),
          \* a built-in without its argument
          Call("clone", <<>>)}

Blocks == {Block(<<>>), Block(<<Number(1), Number(2)>>),
           Block(<<Declare("t", Number(1)), Block(<<Var("t"), Number(2)>>)>>),
           Block(<<Declare("t", Number(1)), Var("t")>>),
           Block(<<Declare("t", Number(1)),
                   Block(<<Declare("u", Var("t")), Call("inc", <<Var("u")>>)>>),
                   CountTo(None, "i", 2, Block(<<Declare("v", Var("i"))>>))>>)}

Ifs == {If(Compare("Less", Var("x"), Number(2)), Block(<<Number(1)>>), Some(Block(<<>>))),
        If(Bool(FALSE), Block(<<Number(1)>>), None),
        If(Bool(TRUE), Block(<<Declare("t", Number(1))>>), None),
        \* the condition is a bare local
        If(Var("f"), Block(<<Number(1)>>), Some(Block(<<>>)))}

Fors == {CountTo(None, "i", 2, Block(<<Declare("t", Var("i")), Var("t")>>)),
         CountTo(Some("a"), "i", 2, Block(<<Assign("Add", Var("x"), Var("i"))>>)),
         \* a body that declares a local and continues
         CountTo(None, "i", 2, Block(<<Declare("t", Var("i")), Continue(None)>>)),
         CountTo(Some("a"), "i", 2, Block(<<Declare("t", Var("i")), Var("t"),
                                            Continue(Some("a"))>>)),
         \* the condition is a bare local
         For(None, Declare("i", Number(0)), Var("f"),
             Assign("Add", Var("i"), Number(1)), Block(<<Break(None)>>)),
         \* the body stores a StackRef to the loop variable in a
         CountTo(None, "i", 1, Block(<<Set(Var("a"), Array(<<Var("i")>>))>>)),
         \* the condition is a call of a function that returns no value
         For(None, Set(Var("x"), Number(0)), Call("inc", <<Var("x")>>),
             Assign("Add", Var("x"), Number(1)), Block(<<Break(None)>>)),
         \* a function that breaks or continues, called from a loop
         CountTo(None, "i", 2, Block(<<Call("brk", <<>>)>>)),
         CountTo(Some("a"), "i", 2, Block(<<Call("brk_a", <<>>)>>)),
         CountTo(None, "i", 2, Block(<<Call("cont", <<>>)>>)),
         CountTo(Some("a"), "i", 2, Block(<<Call("cont_a", <<>>)>>))}

Jumps == {Return(Number(1)), Break(None), Continue(Some("a"))}

Kinds == Literals \cup Items \cup Operations \cup Declarations \cup Updates
         \cup Calls \cup Blocks \cup Ifs \cup Fors \cup Jumps

Next == Exec(Locals, Kinds, MaxOps) \/ Finish

Spec == Init /\ [][Next]_vars

----------------------------------------------------------------------------
(* C1: the value-stack delta of an expression and its production.          *)

\* The height the evaluation ev added to the value stack.
Delta(ev) == ev.st_out - ev.st_in

\* `name := e` with a bare name.
BareDeclare(e) == e.k = "Assign" /\ e.op = "Assign" /\ e.left.k = "Item" /\ e.left.ids = <<>>

\* An Item with a path whose name has no binding in the frame.
UnboundPath(ev) ==
    ev.expr.k = "Item" /\ ev.expr.ids # <<>> /\ ev.expr.name \notin ev.names

\* A call of clone without argument.
CloneOfNothing(e) == e.k = "Call" /\ e.name = "clone" /\ e.args = <<>>

\* The number of elements of an array or object literal that are `return`
\* expressions.
ReturnsIn(e) ==
    CASE e.k = "Array" -> Cardinality({j \in DOMAIN e.items : e.items[j].k = "Return"})
      [] e.k = "Object" ->
            Cardinality({j \in DOMAIN e.key_values : e.key_values[j].expr.k = "Return"})
      [] OTHER -> 0

\* A for-loop whose condition is a call of a function of the program that
\* returns no value.
VoidCondition(e) ==
    /\ e.k = "For"
    /\ e.cond.k = "Call"
    /\ e.cond.name \in DOMAIN functions
    /\ ~functions[e.cond.name].returns

\* The number of tests of the condition made by the for-loop that ended at
\* entry i of the history E.
Tests(E, i) ==
    Cardinality({j \in DOMAIN E :
                    E[i].t_in < E[j].t_in /\ j < i /\ E[j].expr = E[i].expr.cond})

\* The delta matches the production: 1 for Something, 0 for Nothing.
Matches(ev) == Delta(ev) = IF ev.expect = "Something" THEN 1 ELSE 0

\* The evaluation E[i] of a Block or an If left the stack as left by the
\* last expression of the block it ran, and reports what that expression
\* reported; when it ran no expression it left nothing and reports Nothing.
\* E[i - 1] is the last evaluation that ended inside E[i], if there is one:
\* the condition of an If is the one that started when the If started.
AsItsLast(E, i) ==
    IF i = 1 \/ E[i - 1].t_in < E[i].t_in
       \/ (E[i].expr.k = "If" /\ E[i - 1].t_in = E[i].t_in)
    THEN Delta(E[i]) = 0 /\ E[i].expect = "Nothing"
    ELSE E[i].st_out = E[i - 1].st_out /\ E[i].expect = E[i - 1].expect

----------------------------------------------------------------------------
(* C2: the stacks after a completed call of a user function.               *)

\* C2: a completed call of a user function leaves the value stack at its
\* height before the call plus 1 if the function returns a value and plus 0
\* if not (so no argument is left), and the local stack at its height before
\* the call, also when the body ended by a `return` nested in blocks, ifs
\* and loops.
C2_CallRestoresStacks ==
    \A ev \in Events("call") :
        /\ ev.st_out = ev.st_in + (IF ev.returns THEN 1 ELSE 0)
        /\ ev.lc_out = ev.lc_in
        /\ ev.flow = FlowContinue

\* early(x) with x = 1 has returned 7 from inside its loop, if and blocks,
\* with its argument, its local t and the loop variable on the stacks.
C2_Witness ==
    /\ Completed
    /\ obs.expr = Call("early", <<Var("x")>>)
    /\ \E ev \in Events("call") : ev.name = "early" /\ ev.top = VF64(7) /\ ev.st_in = Len(obs.stack0)
    /\ \E ev \in Events("body") : ev.name = "early" /\ ev.flow = FlowReturn

----------------------------------------------------------------------------
(* C3: the local stack after a block.                                      *)

\* C3: when block returns with flow Continue the local stack has the height
\* it had when the block was entered.
C3_BlockRestoresLocals ==
    \A ev \in Events("block") : ev.flow.f = "Continue" => ev.lc_out = ev.lc_in

\* A block that declared a local, ran a nested block with a call and a loop
\* with a body that declares, has returned with flow Continue.
C3_Witness ==
    /\ Completed
    /\ obs.expr.k = "Block"
    /\ Cardinality({ev \in Events("block") :
                       ev.flow.f = "Continue" /\ ev.lc_loop > ev.lc_in}) >= 3
    /\ Events("call") # {}
    /\ Events("for_step") # {}

----------------------------------------------------------------------------
(* C4: a clone and its source.                                             *)

\* x := 1; o := {p: 1}; a := [x, o]; b := clone(a).  The elements of a are
\* StackRefs to the slots of x and o.
CloneLocals ==
    << {Declare("x", Number(1))},
       {Declare("o", Object(<<KV("p", Number(1))>>))},
       {Declare("a", Array(<<Var("x"), Var("o")>>))},
       {Declare("b", Call("clone", <<Var("a")>>))} >>

\* The elements of b and of a.
Elem0(name) == Ix(name, 0)
Elem1(name) == Ix(name, 1)
Elem1P(name) == Item(name, <<IdF64(1), IdString("p")>>)

\* Updating assignments through paths rooted at b and at a.
CloneUpdates ==
    UNION {{Set(Elem0(n), Number(9)), Assign("Add", Elem0(n), Number(1)),
            Set(Elem1P(n), Number(9)), Set(Elem1(n), Var("o")),
            Set(Elem1(n), Object(<<KV("p", Number(7))>>))} : n \in {"a", "b"}}
    \cup {Set(Var("b"), Var("a")), Set(Var("a"), Var("b")), Set(Var("a"), Var("a")),
          Set(Var("b"), Array(<<Number(5), Object(<<>>)>>)),
          \* declarations from a bare local
          Declare("c", Var("b")), Declare("x", Var("x"))}

CloneNext == Exec(CloneLocals, CloneUpdates, MaxOps) \/ Finish

CloneSpec == Init /\ [][CloneNext]_vars

\* The value of main's local `name` on the stack stk, StackRefs followed.
ValueOf(stk, name) == deep_clone(Held(stk, obs.local0, name), stk)

\* The last expression was an updating assignment through a path rooted at
\* `root`, after the clone, and it ran to its end.
AssignedThrough(root) ==
    /\ Completed
    /\ call_stack # <<>>
    /\ Len(prog) > Len(CloneLocals)
    /\ obs.expr.left.name = root

\* C4: after `b := clone(a)`, an assignment through a path rooted at b
\* leaves the values of a and of every other local unchanged, and an
\* assignment through a path rooted at a leaves the value of b unchanged.
C4_CloneIndependent ==
    /\ AssignedThrough("b") =>
          \A n \in {"x", "o", "a"} : ValueOf(stack, n) = ValueOf(obs.stack0, n)
    /\ AssignedThrough("a") => ValueOf(stack, "b") = ValueOf(obs.stack0, "b")

\* Right after the clone the two are independent: `b[1].p = 9` has changed
\* b and nothing else.
C4_Witness ==
    /\ AssignedThrough("b")
    /\ Len(prog) = Len(CloneLocals) + 1
    /\ obs.expr = Set(Elem1P("b"), Number(9))
    /\ ValueOf(stack, "b") # ValueOf(obs.stack0, "b")
    /\ \A n \in {"x", "o", "a"} : ValueOf(stack, n) = ValueOf(obs.stack0, n)

----------------------------------------------------------------------------
(* C5: labeled break and continue in nested loops.                         *)

\* Number of nests of loops the body of main runs after its declarations.
MaxNests == 1

\* e3 := 0; n3 := 0; n2 := 0; n1 := 0
Counters ==
    << {Declare("e3", Number(0))}, {Declare("n3", Number(0))},
       {Declare("n2", Number(0))}, {Declare("n1", Number(0))} >>

Count(name) == Assign("Add", Var(name), Number(1))

Labels == {None, Some("a"), Some("b")}

\* for 'l1 i := 0; i < 2; i += 1 {
\*     for 'l2 j := 0; j < 2; j += 1 {
\*         for 'l3 k := 0; k < 2; k += 1 { e3 += 1; jump; n3 += 1 }
\*         n2 += 1 }
\*     n1 += 1 }
Nest(l1, l2, l3, jump) ==
    CountTo(l1, "i", 2, Block(<<
        CountTo(l2, "j", 2, Block(<<
            CountTo(l3, "k", 2, Block(<<Count("e3"), jump, Count("n3")>>)),
            Count("n2")>>)),
        Count("n1")>>))

Nests ==
    {Nest(l1, l2, l3, jump) :
        l1 \in Labels, l2 \in Labels, l3 \in Labels,
        jump \in {Break(l) : l \in Labels} \cup {Continue(l) : l \in Labels}}

LoopNext == Exec(Counters, Nests, MaxNests) \/ Finish

LoopSpec == Init /\ [][LoopNext]_vars

\* The three loops of a nest, innermost last, and its jump.
LoopsOf(nest) ==
    <<nest, nest.block.expressions[1], nest.block.expressions[1].block.expressions[1]>>
JumpOf(nest) == LoopsOf(nest)[3].block.expressions[2]

\* The loop that the jump of the nest is for: the innermost loop for a jump
\* without label, else the nearest enclosing loop that carries the label of
\* the jump; 0 when there is none.
Target(nest) ==
    IF JumpOf(nest).label = None THEN 3
    ELSE LET at == {m \in 1..3 : LoopsOf(nest)[m].label = JumpOf(nest).label}
         IN  IF at = {} THEN 0 ELSE CHOOSE m \in at : \A n \in at : n <= m

\* What the nest adds to e3, n3, n2 and n1 when the jump ends every loop
\* inside loop m and loop m exits (break) or goes on with its step and its
\* next pass (continue), and the loops outside loop m run their two passes
\* as if there had been no jump.
Tally(e3, n3, n2, n1) == [e3 |-> e3, n3 |-> n3, n2 |-> n2, n1 |-> n1]

Expected(kind, m) ==
    CASE kind = "Break" /\ m = 3 -> Tally(4, 0, 4, 2)
      [] kind = "Break" /\ m = 2 -> Tally(2, 0, 0, 2)
      [] kind = "Break" /\ m = 1 -> Tally(1, 0, 0, 0)
      [] kind = "Continue" /\ m = 3 -> Tally(8, 0, 4, 2)
      [] kind = "Continue" /\ m = 2 -> Tally(4, 0, 0, 2)
      [] kind = "Continue" /\ m = 1 -> Tally(2, 0, 0, 0)
      [] OTHER -> Tally(1, 0, 0, 0)

\* What the last nest added to the counters.
Added(name) == Held(stack, obs.local0, name).n - Held(obs.stack0, obs.local0, name).n
Counted == Tally(Added("e3"), Added("n3"), Added("n2"), Added("n1"))

\* The last expression of main's body was a nest, and main's frame is
\* still there.
NestRan == Len(prog) > Len(Counters) /\ call_stack # <<>>

\* C5: a `break 'L` or `continue 'L` in nested loops ends every enclosing
\* loop that has no label or another label and is consumed by the nearest
\* enclosing loop labeled L, which exits with flow Continue (break) or
\* evaluates its step and goes on with its next pass (continue); the loops
\* outside that loop run as if there had been no jump.  A jump that no loop
\* consumes ends all three loops and leaves the nest as a Break or
\* ContinueLoop flow.
C5_LabeledJumps ==
    NestRan =>
        /\ Counted = Expected(JumpOf(obs.expr).k, Target(obs.expr))
        /\ IF Target(obs.expr) = 0
           THEN /\ obs.flow.f = (IF JumpOf(obs.expr).k = "Break" THEN "Break"
                                 ELSE "ContinueLoop")
                /\ obs.flow.label = JumpOf(obs.expr).label
           ELSE obs.flow = FlowContinue /\ panicked = ""
        /\ \A ev \in Events("for_exit") :
              ev.flow.f # "Continue" => ev.flow.label = JumpOf(obs.expr).label
                                        /\ ev.label # ev.flow.label

\* `continue 'a` in the innermost of the loops 'a, 'b and an unlabeled one
\* has ended the two inner loops in each pass of 'a, and 'a made both of its
\* passes; `break 'b` under the same labels has run, too.
C5_Witness ==
    /\ NestRan
    /\ obs.expr = Nest(Some("a"), Some("b"), None, Continue(Some("a")))
    /\ Counted = Tally(2, 0, 0, 0)
    /\ panicked = ""
    /\ Cardinality({ev \in Events("for_exit") : ev.flow = FlowContinueLoop(Some("a"))}) = 2

----------------------------------------------------------------------------
(* C6: a parameter and the variable of the caller.                         *)

\* The last expression of main's body came after the declarations of
\* Locals, and main's frame is still there.
AfterLocals == Len(prog) > Len(Locals) /\ call_stack # <<>>

\* The last expression was a call of a user function with one argument,
\* main's local `name`.
CalledWith(name) ==
    /\ obs.expr.k = "Call"
    /\ obs.expr.name \in DOMAIN functions
    /\ obs.expr.args = <<Var(name)>>

\* C6 as stated: an assignment to the parameter inside the callee leaves
\* the variable of the caller that was passed as a bare local unchanged.
C6_ParameterIsolated ==
    \A name \in {"x", "a", "o"} :
        AfterLocals /\ panicked = "" /\ CalledWith(name) =>
            Held(stack, obs.local0, name) = Held(obs.stack0, obs.local0, name)

\* C6, amended: the parameter of a bare local is bound to the slot of the
\* caller's variable, and an assignment to the parameter writes that slot:
\* inc(x) adds one to main's x and put(o) sets p in main's o.  An argument
\* that is not a bare local has a slot of its own, and inc(1) changes no
\* slot of main.  A callee that does not assign its parameter leaves the
\* variable as it was.
C6_ParameterWritesThrough ==
    AfterLocals =>
        /\ obs.expr = Call("inc", <<Var("x")>>) =>
              /\ panicked = ""
              /\ Held(stack, obs.local0, "x")
                    = VF64(Held(obs.stack0, obs.local0, "x").n + 1)
        /\ obs.expr = Call("put", <<Var("o")>>) =>
              /\ panicked = ""
              /\ Held(stack, obs.local0, "o")
                    = VObject([Held(obs.stack0, obs.local0, "o").o EXCEPT !["p"] = VF64(9)])
        /\ obs.expr = Call("inc", <<Number(1)>>) =>
              panicked = "" /\ stack = obs.stack0
        /\ \A name \in {"x", "a"} :
              /\ CalledWith(name)
              /\ obs.expr.name \in {"sq", "early", "maybe", "void"}
              /\ panicked = ""
              => Held(stack, obs.local0, name) = Held(obs.stack0, obs.local0, name)

\* inc(x) has run with main's x at 1, and main's x is 2.
C6_Witness ==
    /\ AfterLocals
    /\ panicked = ""
    /\ obs.expr = Call("inc", <<Var("x")>>)
    /\ Held(obs.stack0, obs.local0, "x") = VF64(1)
    /\ Held(stack, obs.local0, "x") = VF64(2)
    /\ \E ev \in Events("call") : ev.name = "inc"

----------------------------------------------------------------------------
(* C9: the return slot at the exit of a call.                              *)

\* The panic of a call whose return slot is the sentinel.
NoReturnValue == "Function did not return a value"

\* C9: a call of a user function that declares a return completes only
\* with a value other than the Return sentinel in its return slot, and then
\* that value is the top of the value stack and the call expects
\* Something; when the body has ended, normally or by a return flow, with
\* the sentinel still in the slot, the call fails.
C9_ReturnSlotSet ==
    /\ \A ev \in Events("call") :
          ev.returns => ev.top # VReturn /\ ev.expect = "Something"
    /\ \A i \in DOMAIN obs.trace :
          /\ obs.trace[i].ev = "body"
          /\ obs.trace[i].returns
          /\ obs.trace[i].flow.f \in {"Continue", "Return"}
          => IF obs.trace[i].slot = VReturn
             THEN i = Len(obs.trace) /\ panicked = NoReturnValue
             ELSE /\ i < Len(obs.trace)
                  /\ obs.trace[i + 1].ev = "call"
                  /\ obs.trace[i + 1].name = obs.trace[i].name
                  /\ obs.trace[i + 1].top = obs.trace[i].slot

\* In add(sq(x), shadow()), sq has completed with the value assigned by
\* `return = x * x` on top of the stack, and shadow, whose `return 6`
\* assigns its own local named return, has failed with the sentinel in its
\* slot after a return flow.
C9_Witness ==
    /\ AfterLocals
    /\ obs.expr = Call("add", <<Call("sq", <<Var("x")>>), Call("shadow", <<>>)>>)
    /\ panicked = NoReturnValue
    /\ \E ev \in Events("call") :
          ev.name = "sq" /\ ev.top = VF64(Held(obs.stack0, obs.local0, "x").n ^ 2)
    /\ \E ev \in Events("body") :
          ev.name = "shadow" /\ ev.flow = FlowReturn /\ ev.slot = VReturn

----------------------------------------------------------------------------
(* C10: break and continue at the boundary of a function.                  *)

\* C10: when the body of a user function ends with a Break or ContinueLoop
\* flow, with or without label, the evaluation fails there with the panic
\* of call, and nothing runs after it: no loop of the caller sees the flow.
C10_JumpStopsAtFunction ==
    \A i \in DOMAIN obs.trace :
        obs.trace[i].ev = "body" /\ obs.trace[i].flow.f \in {"Break", "ContinueLoop"} =>
            /\ i = Len(obs.trace)
            /\ panicked = CASE obs.trace[i].flow.label # None -> "There is no loop labeled"
                            [] obs.trace[i].flow.f = "Break" -> "Can not break from function"
                            [] OTHER -> "Can not continue from function"

\* brk_a, whose body is `break 'a`, was called from the body of main's loop
\* 'a: the evaluation has failed in the first pass, and the loop has not
\* been left by a break.
C10_Witness ==
    /\ AfterLocals
    /\ obs.expr = CountTo(Some("a"), "i", 2, Block(<<Call("brk_a", <<>>)>>))
    /\ panicked = "There is no loop labeled"
    /\ \E ev \in Events("body") : ev.name = "brk_a" /\ ev.flow = FlowBreak(Some("a"))
    /\ Events("for_exit") = {}
    /\ Events("for_step") = {}

----------------------------------------------------------------------------
(* C7, C8: assignments through a path.                                     *)

\* Number of assignments the body of main makes after its declarations.
MaxAssigns == 1

\* x := 1; o := {p: 1, q: {r: 2}}; a := [x, {}]
AssignLocals ==
    << {Declare("x", Number(1))},
       {Declare("o", Object(<<KV("p", Number(1)),
                              KV("q", Object(<<KV("r", Number(2))>>))>>))},
       {Declare("a", Array(<<Var("x"), Object(<<>>)>>))} >>

\* ast::AssignOp
AssignOps == {"Assign", "Set", "Add", "Sub", "Mul", "Div", "Rem", "Pow"}

\* o.p, o.z, o.q.z, o.z.r, o.q.r, a[0], a[1].z
Paths == {Dot("o", "p"), Dot("o", "z"),
          Item("o", <<IdString("q"), IdString("z")>>),
          Item("o", <<IdString("z"), IdString("r")>>),
          Item("o", <<IdString("q"), IdString("r")>>),
          Ix("a", 0), Item("a", <<IdF64(1), IdString("z")>>)}

Rights == {Number(2), Var("x"), Object(<<>>)}

Assignments == {Assign(op, l, r) : op \in AssignOps, l \in Paths, r \in Rights}

AssignNext == Exec(AssignLocals, Assignments, MaxAssigns) \/ Finish

AssignSpec == Init /\ [][AssignNext]_vars

\* What the path ids leads to from the value v on the stack stk: <<w>>, or
\* <<>> when a key or an index of the path is not there.
RECURSIVE Find(_, _, _)
Find(stk, v, ids) ==
    IF ids = <<>> THEN <<v>>
    ELSE LET w == resolve(stk, v)
             h == Head(ids)
         IN  CASE w.t = "Object" /\ h.id = "String" /\ h.s \in DOMAIN w.o ->
                     Find(stk, w.o[h.s], Tail(ids))
               [] w.t = "Array" /\ h.id = "F64" /\ h.n \in 0..(Len(w.a) - 1) ->
                     Find(stk, w.a[h.n + 1], Tail(ids))
               [] OTHER -> <<>>

\* The first n segments of the left side of the last assignment lead to a
\* value, before the assignment (Before) and after it (After).
Before(n) ==
    Find(obs.stack0, Held(obs.stack0, obs.local0, obs.expr.left.name),
         SubSeq(obs.expr.left.ids, 1, n))
After(n) ==
    Find(stack, Held(stack, obs.local0, obs.expr.left.name),
         SubSeq(obs.expr.left.ids, 1, n))

\* Segment n of the left side is a key that is absent from the object the
\* segments before it lead to.
AbsentKey(n) ==
    /\ Before(n - 1) # <<>>
    /\ resolve(obs.stack0, Before(n - 1)[1]).t = "Object"
    /\ obs.expr.left.ids[n].id = "String"
    /\ Before(n) = <<>>

AbsentLast == AbsentKey(Len(obs.expr.left.ids))
AbsentInner == \E n \in 1..(Len(obs.expr.left.ids) - 1) : AbsentKey(n)

\* The value of the right side of the last assignment.
RightValue ==
    CASE obs.expr.right.k = "Number" -> VF64(obs.expr.right.num)
      [] obs.expr.right.k = "Item" ->
            resolve(obs.stack0, Held(obs.stack0, obs.local0, obs.expr.right.name))
      [] OTHER -> VObject(EmptyObject)

\* The last expression was one of Assignments, and main's frame is still
\* there.
Assigned == Len(prog) > Len(AssignLocals) /\ call_stack # <<>>

\* The slots of main's locals hold what they held before the assignment.
LocalsKept == \A name \in {"x", "o", "a"} :
                  Held(stack, obs.local0, name) = Held(obs.stack0, obs.local0, name)
OthersKept == \A name \in {"x", "o", "a"} \ {obs.expr.left.name} :
                  Held(stack, obs.local0, name) = Held(obs.stack0, obs.local0, name)

\* C7 as stated: when the last segment is an absent key, `=` inserts the key
\* with the value of the right side and every compound operator fails; an
\* absent key before the last segment fails.
C7_SetInsertsKey ==
    Assigned /\ obs.expr.op # "Assign" =>
        /\ AbsentLast =>
              IF obs.expr.op = "Set"
              THEN panicked = "" /\ After(Len(obs.expr.left.ids)) = <<RightValue>>
              ELSE panicked # ""
        /\ AbsentInner => panicked # ""

\* C7, amended: an updating assignment through a path with an absent key
\* fails with "Object has no key" for every operator, `=` included, whether
\* the key is the last segment or not, and changes no local; so does a
\* declaring assignment when the absent key is not the last segment.
C7_AbsentKeyFails ==
    Assigned =>
        /\ obs.expr.op # "Assign" /\ AbsentLast =>
              panicked = "Object has no key" /\ LocalsKept
        /\ AbsentInner => panicked = "Object has no key" /\ LocalsKept

\* `o.z = 2` has failed, and o has no key z.
C7_Witness ==
    /\ Assigned
    /\ obs.expr = Set(Dot("o", "z"), Number(2))
    /\ AbsentLast
    /\ panicked = "Object has no key"
    /\ "z" \notin DOMAIN Held(stack, obs.local0, "o").o

\* The path of the left side resolves for a declaring assignment: all
\* segments lead to a value, or all but the last do and the last is a key
\* absent from an object.
Resolves ==
    \/ Before(Len(obs.expr.left.ids)) # <<>>
    \/ AbsentLast

----------------------------------------------------------------------------
(* C11: the number of arguments of a call.                                 *)

\* Number of calls the body of main makes after its declarations.
MaxCalls == 1

\* x := 1; a := [x, 2]
ArityLocals ==
    << {Declare("x", Number(1))},
       {Declare("a", Array(<<Var("x"), Number(2)>>))} >>

\* Argument lists of length 0, 1 and 2.
ArgLists ==
    {<<>>} \cup {<<e>> : e \in {Var("x"), Var("a")}}
           \cup {<<e, f>> : e \in {Var("x"), Var("a")}, f \in {Var("x"), Var("a")}}

Callees == {"sq", "add", "noret", "void",
            "clone", "println", "print", "len", "random", "debug", "backtrace"}

ArityCalls == {Call(name, args) : name \in Callees, args \in ArgLists}

ArityNext == Exec(ArityLocals, ArityCalls, MaxCalls) \/ Finish

AritySpec == Init /\ [][ArityNext]_vars

\* The arity of a callee and the number of values it leaves: those of the
\* declaration for a user function, those of the table of built-in
\* procedures for a built-in.
BuiltinArity(name) == IF name \in {"random", "debug", "backtrace"} THEN 0 ELSE 1
BuiltinReturns(name) == name \in {"clone", "len", "random"}
ArityOf(name) ==
    IF name \in DOMAIN functions THEN Len(functions[name].args) ELSE BuiltinArity(name)

\* The last expression was one of ArityCalls, and main's frame is still
\* there.
CallRan == Len(prog) > Len(ArityLocals) /\ call_stack # <<>>

\* C11: a call whose number of arguments differs from the arity of the
\* callee fails, and a built-in that completes leaves exactly its declared
\* production, one value or none, above the stack height of the caller.
C11_ArityChecked ==
    CallRan =>
        /\ Len(obs.expr.args) # ArityOf(obs.expr.name) => panicked # ""
        /\ obs.expr.name \notin DOMAIN functions /\ panicked = "" =>
              Len(stack) = Len(obs.stack0)
                           + (IF BuiltinReturns(obs.expr.name) THEN 1 ELSE 0)

\* clone(a, x) has completed: what it left on the stack is the StackRef of
\* its first argument, not a clone.
C11_Witness ==
    /\ CallRan
    /\ obs.expr = Call("clone", <<Var("a"), Var("x")>>)
    /\ panicked = ""
    /\ obs.expect = "Something"
    /\ stack = Append(obs.stack0, VRef(SlotOf(obs.local0, "a")))

----------------------------------------------------------------------------
(* C12: the binding a bare name resolves to.                               *)

\* The evaluations of bare names during the last expression of main's body.
NameEvents == {ev \in Events("expr") : ev.expr.k = "Item" /\ ev.expr.ids = <<>>}

\* The slot of the most recent binding of name among the bindings ls.
MostRecent(ls, name) ==
    ls[CHOOSE m \in DOMAIN ls :
           ls[m].name = name /\ \A n \in DOMAIN ls : n > m => ls[n].name # name].id

NoLocal == "Could not find local variable"

\* C12: a bare name that evaluates has a binding in the current frame and
\* yields the StackRef of the most recent one of them; a name bound in the
\* frame of the caller only, or in no frame, makes the evaluation fail.
C12_NameInFrame ==
    /\ \A ev \in NameEvents :
          /\ ev.expr.name \in ev.names
          /\ ev.top = VRef(MostRecent(ev.frame, ev.expr.name))
          /\ ev.st_out = ev.st_in + 1
    /\ AfterLocals /\ obs.expr \in {Call("peek", <<>>), Var("zz")} => panicked = NoLocal

\* In sq(3), called while main has a local x of its own, the x of the body
\* has resolved to the slot of the parameter, not to the slot of main's x;
\* and in a frame with two bindings of one name the name has resolved to
\* the later one.
C12_Witness ==
    /\ AfterLocals
    /\ panicked = ""
    /\ obs.expr = Call("sq", <<Number(3)>>)
    /\ Bound(obs.local0, "x")
    /\ \E ev \in NameEvents :
          /\ ev.expr.name = "x"
          /\ ev.top = VRef(Len(obs.stack0) + 1)
          /\ ev.top # VRef(SlotOf(obs.local0, "x"))
    /\ Len(prog) > Len(Locals) + 1
    /\ prog[Len(prog) - 1] = Declare("x", Number(7))
    /\ SlotOf(obs.local0, "x") = Len(obs.stack0) - 1

----------------------------------------------------------------------------
(* C13: an Item with a path whose name has no binding.                     *)

\* The last expression of main's body is an Item with a path on a name that
\* main has not bound.
LastIsUnboundPath ==
    /\ AfterLocals
    /\ obs.expr.k = "Item"
    /\ obs.expr.ids # <<>>
    /\ ~Bound(obs.local0, obs.expr.name)

\* C13: evaluating an Item with a non-empty path whose name has no binding
\* in the current frame fails; it does not complete.
C13_UnboundPathFails == LastIsUnboundPath => panicked # ""

\* zz[0] has completed, reported Something, and pushed nothing.
C13_Witness ==
    /\ LastIsUnboundPath
    /\ obs.expr = Ix("zz", 0)
    /\ panicked = ""
    /\ obs.expect = "Something"
    /\ stack = obs.stack0

----------------------------------------------------------------------------
(* C14: `a = b` between two containers.                                    *)

\* The first expression after the locals of CloneSpec was `p = q` between
\* the arrays a and b, and the last expression ran to its end.
AfterCopy(p, q) ==
    /\ Completed
    /\ call_stack # <<>>
    /\ Len(prog) > Len(CloneLocals)
    /\ prog[Len(CloneLocals) + 1] = Set(Var(p), Var(q))

JustCopied(p, q) == AfterCopy(p, q) /\ Len(prog) = Len(CloneLocals) + 1

\* C14: after `a = b` between two different locals that hold arrays the
\* slot of a holds an array of its own, not a StackRef; a later assignment
\* through a leaves the value of b unchanged; and `a = a` changes nothing.
C14_AssignCopiesContainer ==
    /\ \A p, q \in {"a", "b"} :
          JustCopied(p, q) /\ p # q => Held(stack, obs.local0, p).t = "Array"
    /\ \A p, q \in {"a", "b"} :
          AfterCopy(p, q) /\ p # q /\ Len(prog) = Len(CloneLocals) + 2
                          /\ obs.expr.left.name = p
             => ValueOf(stack, q) = ValueOf(obs.stack0, q)
    /\ JustCopied("a", "a") => stack = obs.stack0

\* `a = b` has run to its end and the slot of a holds a StackRef to the
\* slot of b.
C14_Witness ==
    /\ JustCopied("a", "b")
    /\ Held(obs.stack0, obs.local0, "a").t = "Array"
    /\ Held(stack, obs.local0, "a") = VRef(SlotOf(obs.local0, "b"))

----------------------------------------------------------------------------
(* C15: what an Item with a path pushes on side Right.                     *)

\* The last expression of main's body is an Item with a path of literal
\* segments on a bound name, evaluated on side Right, and it ran to its end.
PathRead ==
    /\ AfterLocals
    /\ Completed
    /\ obs.expr.k = "Item"
    /\ obs.expr.ids # <<>>
    /\ \A n \in DOMAIN obs.expr.ids : obs.expr.ids[n].id \in {"String", "F64"}
    /\ Bound(obs.local0, obs.expr.name)

\* The value the path of the Item leads to, before the evaluation.
Referred == Find(obs.stack0, Held(obs.stack0, obs.local0, obs.expr.name), obs.expr.ids)

\* C15: an Item with a path on side Right pushes the deep clone of the
\* value the path leads to, a value without StackRef at any depth.
C15_PathReadIsDeepClone ==
    PathRead =>
       /\ Referred # <<>>
       /\ stack = Append(obs.stack0, deep_clone(Referred[1], obs.stack0))

\* a[0], with a = [x, 2], has pushed the StackRef to the slot of x that the
\* element holds, not the number 1.
C15_Witness ==
    /\ PathRead
    /\ obs.expr = Ix("a", 0)
    /\ Referred = <<VRef(SlotOf(obs.local0, "x"))>>
    /\ stack = Append(obs.stack0, VRef(SlotOf(obs.local0, "x")))
    /\ deep_clone(Referred[1], obs.stack0) = VF64(1)

----------------------------------------------------------------------------
(* C16: assignments between values of different types.                     *)

\* x := 1; t := "s"; f := true; o := {p: 1, q: "s"}; a := [x, {}]
TypeLocals ==
    << {Declare("x", Number(1))},
       {Declare("t", Text(<<"s">>))},
       {Declare("f", Bool(TRUE))},
       {Declare("o", Object(<<KV("p", Number(1)), KV("q", Text(<<"s">>))>>))},
       {Declare("a", Array(<<Var("x"), Object(<<>>)>>))} >>

TypeNames == {"x", "t", "f", "o", "a"}

\* Bare names and paths; a[0] holds a StackRef to the slot of x.
Targets == {Var(n) : n \in TypeNames}
           \cup {Dot("o", "p"), Dot("o", "q"), Ix("a", 0), Ix("a", 1)}

TypeRights == {Number(2), Text(<<"u">>), Bool(FALSE), Object(<<>>), Array(<<>>),
               Var("x"), Var("t")}

TypeAssignments ==
    {Assign(op, l, r) : op \in AssignOps, l \in Targets, r \in TypeRights}

TypeNext == Exec(TypeLocals, TypeAssignments, MaxAssigns) \/ Finish

TypeSpec == Init /\ [][TypeNext]_vars

\* The last expression was one of TypeAssignments.
TypeAssigned == Len(prog) > Len(TypeLocals) /\ call_stack # <<>>

\* The type of the value the target of the last assignment holds before it,
\* a StackRef followed, and the type of the value of its right side.
TargetType == resolve(obs.stack0, Before(Len(obs.expr.left.ids))[1]).t
RightType ==
    CASE obs.expr.right.k = "Number" -> "F64"
      [] obs.expr.right.k = "Text" -> "Text"
      [] obs.expr.right.k = "Bool" -> "Bool"
      [] obs.expr.right.k = "Object" -> "Object"
      [] obs.expr.right.k = "Array" -> "Array"
      [] OTHER -> resolve(obs.stack0, Held(obs.stack0, obs.local0, obs.expr.right.name)).t

\* The target is a slot that exists before the assignment (the path leads
\* to it) and holds a value of another type than the right side: every
\* target but the bare name of a declaring assignment, which gets a slot of
\* its own.
Mismatch ==
    /\ TypeAssigned
    /\ ~(obs.expr.op = "Assign" /\ obs.expr.left.ids = <<>>)
    /\ Bound(obs.local0, obs.expr.left.name)
    /\ Before(Len(obs.expr.left.ids)) # <<>>
    /\ TargetType # "Return"
    /\ TargetType # RightType

\* The values of main's locals, StackRefs followed, are what they were.
ValuesKept == \A n \in TypeNames : ValueOf(stack, n) = ValueOf(obs.stack0, n)

\* C16 as stated: an assignment to a slot that holds a value of another
\* type fails and leaves the value of the slot as it was, whatever the
\* operator, for bare names and for paths.
C16_MismatchFails == Mismatch => panicked # "" /\ ValuesKept

\* C16, amended: an updating assignment to a slot that holds a value of
\* another type fails and leaves the values of the locals as they were; a
\* declaring assignment through a path stores the right value whatever the
\* slot holds.
C16_UpdateMismatchFails ==
    Mismatch =>
        IF obs.expr.op # "Assign"
        THEN panicked # "" /\ ValuesKept
        ELSE /\ panicked = ""
             /\ After(Len(obs.expr.left.ids)) # <<>>
             /\ resolve(stack, After(Len(obs.expr.left.ids))[1]).t = RightType

\* `o.p = "u"`, a text for a number, has failed with o as it was; the
\* operator, the target and the right side are of the kinds the claim names.
C16_Witness ==
    /\ Mismatch
    /\ obs.expr = Set(Dot("o", "p"), Text(<<"u">>))
    /\ TargetType = "F64" /\ RightType = "Text"
    /\ panicked = "Expected assigning to text"
    /\ ValuesKept

----------------------------------------------------------------------------
(* C17: the heights of the stacks at the condition of a for-loop.          *)

\* The last expression of main's body was a for-loop.
LoopRan == AfterLocals /\ obs.expr.k = "For"

\* The evaluations of the condition and of the step of that loop.
CondEvents == {ev \in Events("expr") : ev.expr = obs.expr.cond}
StepEvents == {ev \in Events("expr") : ev.expr = obs.expr.step}

\* The bindings of main's frame after the init `i := 0` of the loop.
PostInit == Append(obs.local0, [name |-> "i", id |-> Len(obs.stack0)])

\* C17: every evaluation of the condition of a for-loop starts with the
\* value stack and the local stack at their heights after the init, and no
\* step sees a local of the body.
C17_CondAtPostInit ==
    LoopRan =>
        /\ \A ev \in CondEvents :
              ev.st_in = Len(obs.stack0) + 1 /\ ev.frame = PostInit
        /\ \A ev \in StepEvents : "t" \notin ev.names

\* A pass that ended with `continue` after `t := i` went on to a condition
\* that started with the slot and the binding of t still there.
C17_Witness ==
    /\ LoopRan
    /\ panicked = ""
    /\ obs.expr = CountTo(None, "i", 2, Block(<<Declare("t", Var("i")), Continue(None)>>))
    /\ \E ev \in CondEvents :
          /\ ev.st_in = Len(obs.stack0) + 2
          /\ ev.frame = Append(PostInit, [name |-> "t", id |-> Len(obs.stack0) + 1])
    /\ \E ev \in Events("for_step") : ev.by_continue

----------------------------------------------------------------------------
(* C18: a Return flow in a sub-expression.                                 *)

\* The positions in the history of the evaluations of expressions, and of
\* those that yielded the flow Return.
ExprAt == {i \in DOMAIN obs.trace : obs.trace[i].ev = "expr"}
ReturnAt == {j \in ExprAt : obs.trace[j].flow.f = "Return"}

\* The evaluation that ended at k began before the one that ended at j and
\* ended after it: j is a sub-expression of k.
Encloses(k, j) == obs.trace[k].t_in < j /\ j < k

\* The position at which the call ended in whose body the expression at j
\* was evaluated; past the end of the history if that call did not end.
CallEnd(j) ==
    LET calls == {c \in ExprAt : obs.trace[c].expr.k = "Call" /\ Encloses(c, j)}
    IN  IF calls = {} THEN Len(obs.trace) + 1
        ELSE CHOOSE c \in calls : \A d \in calls : c <= d

\* The evaluations that ended after the one at j and within that call: the
\* expressions around j (Around), and those that began after j ended (Later).
Around(j) == {k \in ExprAt : j < k /\ k < CallEnd(j) /\ Encloses(k, j)}
Later(j) == {m \in ExprAt : j < m /\ m < CallEnd(j) /\ obs.trace[m].t_in >= j}

\* C18: when a sub-expression yields the flow Return, every expression
\* around it within the function yields Return, and nothing more is
\* evaluated in the function.
C18_ReturnPropagates ==
    \A j \in ReturnAt :
        /\ \A k \in Around(j) : obs.trace[k].flow.f = "Return"
        /\ Later(j) = {}

\* in_array(1): the array literal [return v, 2] has evaluated 2 after
\* `return v` yielded Return, and has itself yielded Continue.
C18_Witness ==
    /\ AfterLocals
    /\ panicked = ""
    /\ obs.expr = Call("in_array", <<Number(1)>>)
    /\ \E j \in ReturnAt : \E k \in Around(j) :
          /\ obs.trace[j].expr = Return(Var("v"))
          /\ obs.trace[k].expr = fn_in_array.block.expressions[1]
          /\ obs.trace[k].flow = FlowContinue
          /\ \E m \in Later(j) : m < k /\ obs.trace[m].expr = Number(2)

----------------------------------------------------------------------------
(* C19: an assignment through a path that passes a StackRef.               *)

\* The first expression after the locals of CloneSpec was an updating
\* assignment to a[1].p, where a[1] holds a StackRef to the slot of o, and
\* it ran to its end.
ThroughRef ==
    /\ AssignedThrough("a")
    /\ Len(prog) = Len(CloneLocals) + 1
    /\ obs.expr.op # "Assign"
    /\ obs.expr.left = Elem1P("a")
    /\ At(Held(obs.stack0, obs.local0, "a").a, 1) = VRef(SlotOf(obs.local0, "o"))

\* C19: an updating assignment through a[1].p, with a[1] a StackRef to the
\* local o, leaves o as it was.
C19_OtherLocalKept ==
    ThroughRef => Held(stack, obs.local0, "o") = Held(obs.stack0, obs.local0, "o")

\* `a[1].p = 9` has set the key p of o to 9 and has left the slot of a, with
\* its StackRef, as it was.
C19_Witness ==
    /\ ThroughRef
    /\ obs.expr = Set(Elem1P("a"), Number(9))
    /\ Held(obs.stack0, obs.local0, "o") = VObject([p |-> VF64(1)])
    /\ Held(stack, obs.local0, "o") = VObject([p |-> VF64(9)])
    /\ Held(stack, obs.local0, "a") = Held(obs.stack0, obs.local0, "a")

----------------------------------------------------------------------------
(* C20: a bare local as the condition of an `if` or of a for-loop.         *)

\* The last expression of main's body was an `if` or a for-loop whose
\* condition is the bare name f, and main has bound f to a Bool.
BoolLocalCondition ==
    /\ AfterLocals
    /\ obs.expr.k \in {"If", "For"}
    /\ obs.expr.cond = Var("f")
    /\ Bound(obs.local0, "f")
    /\ Held(obs.stack0, obs.local0, "f").t = "Bool"

\* C20: an `if` or a for-loop whose condition is a bare local bound to a
\* Bool does not fail; with the local true the `if` gives the value of its
\* true-block.
C20_BoolLocalResolved ==
    BoolLocalCondition =>
        /\ panicked = ""
        /\ obs.expr.k = "If" /\ Held(obs.stack0, obs.local0, "f") = VBool(TRUE) =>
              obs.expect = "Something" /\ stack = Append(obs.stack0, VF64(1))

\* `f := true; if f { 1 } else { }` has failed with "Expected bool".
C20_Witness ==
    /\ BoolLocalCondition
    /\ obs.expr.k = "If"
    /\ prog[Len(prog) - 1] = Declare("f", Bool(TRUE))
    /\ Held(obs.stack0, obs.local0, "f") = VBool(TRUE)
    /\ panicked = "Expected bool"

----------------------------------------------------------------------------
(* C21: a built-in called with a bare local and with the value it holds.   *)

\* x := 4; t := "s "; a := [1, 2]; f := true
BuiltinLocals ==
    << {Declare("x", Number(4))},
       {Declare("t", Text(<<"s", " ">>))},
       {Declare("a", Array(<<Number(1), Number(2)>>))},
       {Declare("f", Bool(TRUE))} >>

\* The literal of the value a local of BuiltinLocals holds.
LiteralOf(name) == (CHOOSE d \in BuiltinLocals[CHOOSE i \in DOMAIN BuiltinLocals :
                                   \E e \in BuiltinLocals[i] : e.left.name = name] :
                        TRUE).right

\* The built-ins with one argument.
OneArgument == {"clone", "print", "println", "len", "sqrt", "to_string",
                "round", "sleep", "trim_right", "read_number"}

BuiltinNames == {"x", "t", "a", "f"}

BuiltinCalls ==
    {Call(name, <<arg>>) :
        name \in OneArgument,
        arg \in {Var(n) : n \in BuiltinNames} \cup {LiteralOf(n) : n \in BuiltinNames}}

BuiltinNext == Exec(BuiltinLocals, BuiltinCalls, MaxCalls) \/ Finish

BuiltinSpec == Init /\ [][BuiltinNext]_vars

\* The last expression was the first of the calls after the locals, with a
\* bare local as its argument.
CalledOnLocal ==
    /\ Len(prog) = Len(BuiltinLocals) + 1
    /\ call_stack # <<>>
    /\ obs.expr.args[1].k = "Item"

\* What an evaluation came to: the panic, or what it reported and the stack.
Outcome(msg, expect, stk) ==
    IF msg # "" THEN <<msg>> ELSE <<msg, expect, stk>>

\* The outcome of the same call with the literal in place of the local, from
\* the state before the call.
WithLiteral ==
    Let(Eval([stack |-> obs.stack0, local_stack |-> obs.local0,
              call_stack |-> call_stack, panic |-> "", trace |-> <<>>],
             Call(obs.expr.name, <<LiteralOf(obs.expr.args[1].name)>>)),
        LAMBDA x: Outcome(x.rt.panic, x.r.expect, x.rt.stack))

\* C21: a built-in with one argument comes to the same outcome for a bare
\* local as for the literal of the value the local holds.
C21_LocalAsLiteral ==
    CalledOnLocal => Outcome(panicked, obs.expect, stack) = WithLiteral

\* round(x) has failed where round(4) gives 4; sqrt(x) gives what sqrt(4)
\* gives.
C21_Witness ==
    /\ CalledOnLocal
    /\ obs.expr = Call("round", <<Var("x")>>)
    /\ panicked = "Expected number"
    /\ WithLiteral = <<"", "Something", Append(obs.stack0, VF64(4))>>

----------------------------------------------------------------------------
(* C22: an assignment to a slot that holds a StackRef.                     *)

\* The last expression was an updating assignment to a[0], which holds a
\* StackRef to the slot of x, with a number on the right.
ToRefSlot ==
    /\ Assigned
    /\ Len(prog) = Len(AssignLocals) + 1
    /\ obs.expr.op # "Assign"
    /\ obs.expr.left = Ix("a", 0)
    /\ Before(1) = <<VRef(SlotOf(obs.local0, "x"))>>
    /\ RightValue.t = "F64"

\* The number `old op= v` comes to, for the operators whose result is whole.
Updated(op, old, v) ==
    CASE op = "Set" -> v
      [] op = "Add" -> old + v
      [] op = "Sub" -> old - v
      [] op = "Mul" -> old * v

\* C22: an updating assignment to a[0], a slot of the array that holds a
\* StackRef to x, leaves the slot of x as it was and puts the new value in
\* the slot of the array: the right value for `=`, and for a compound
\* operator the result computed from the value of x.
C22_RefSlotReplaced ==
    ToRefSlot =>
        /\ Held(stack, obs.local0, "x") = Held(obs.stack0, obs.local0, "x")
        /\ obs.expr.op \in {"Set", "Add", "Sub", "Mul"} =>
              /\ panicked = ""
              /\ After(1) = <<VF64(Updated(obs.expr.op,
                                           Held(obs.stack0, obs.local0, "x").n,
                                           RightValue.n))>>

\* `a[0] += 2` after x := 1; a := [x, {}]: a[0] holds 3 and x holds 1.
C22_Witness ==
    /\ ToRefSlot
    /\ obs.expr = Assign("Add", Ix("a", 0), Number(2))
    /\ panicked = ""
    /\ After(1) = <<VF64(3)>>
    /\ Held(stack, obs.local0, "x") = VF64(1)

----------------------------------------------------------------------------
(* C23: the StackRefs on the value stack.                                  *)

\* Every StackRef in the value v, at any depth, refers to a slot below the
\* height h.
RECURSIVE RefsBelow(_, _)
RefsBelow(v, h) ==
    CASE v.t = "Ref" -> v.ind < h
      [] v.t = "Array" -> \A i \in DOMAIN v.a : RefsBelow(v.a[i], h)
      [] v.t = "Object" -> \A k \in DOMAIN v.o : RefsBelow(v.o[k], h)
      [] OTHER -> TRUE

\* C23: between the expressions of main's body every StackRef on the value
\* stack, at any depth, refers to a slot below the height of the stack.
C23_RefsInStack ==
    panicked = "" => \A i \in DOMAIN stack : RefsBelow(stack[i], Len(stack))

\* mk() has returned: the array in its return slot, now the top of the
\* stack, holds a StackRef to the slot its local t had, which is the height
\* of the stack now.
C23_Witness ==
    /\ AfterLocals
    /\ panicked = ""
    /\ obs.expr = Call("mk", <<>>)
    /\ stack = Append(obs.stack0, VArray(<<VRef(Len(obs.stack0) + 1)>>))

----------------------------------------------------------------------------
(* C24: where the Return sentinel occurs.                                  *)

\* The value v holds the Return sentinel, at any depth.
RECURSIVE HoldsReturn(_)
HoldsReturn(v) ==
    CASE v.t = "Return" -> TRUE
      [] v.t = "Array" -> \E i \in DOMAIN v.a : HoldsReturn(v.a[i])
      [] v.t = "Object" -> \E k \in DOMAIN v.o : HoldsReturn(v.o[k])
      [] OTHER -> FALSE

\* C24: between the expressions of main's body, where no returning call is
\* in progress, no slot of the value stack and no object or array element
\* holds the Return sentinel.
C24_NoSentinel ==
    panicked = "" => \A i \in DOMAIN stack : ~HoldsReturn(stack[i])

\* stash(o) has returned 1 and main's object o has the key z, which holds
\* the sentinel that stash read from its unset return slot.
C24_Witness ==
    /\ AfterLocals
    /\ panicked = ""
    /\ obs.expr = Call("stash", <<Var("o")>>)
    /\ Last(stack) = VF64(1)
    /\ Bound(local_stack, "o")
    /\ "z" \in DOMAIN Held(stack, local_stack, "o").o
    /\ Held(stack, local_stack, "o").o["z"] = VReturn

----------------------------------------------------------------------------
(* C25: the life of an UnsafeRef.                                          *)

\* The value v is or holds an UnsafeRef, at any depth.
RECURSIVE HoldsUnsafeRef(_)
HoldsUnsafeRef(v) ==
    CASE v.t = "UnsafeRef" -> TRUE
      [] v.t = "Array" -> \E i \in DOMAIN v.a : HoldsUnsafeRef(v.a[i])
      [] v.t = "Object" -> \E k \in DOMAIN v.o : HoldsUnsafeRef(v.o[k])
      [] OTHER -> FALSE

\* The evaluations of the history that left an UnsafeRef on the stack.
HandleEvents ==
    {j \in DOMAIN obs.trace :
        obs.trace[j].ev = "expr" /\ HoldsUnsafeRef(obs.trace[j].top)}

\* The entry after j in the history is the end of the assignment whose left
\* side is the expression of entry j: nothing was evaluated, and no loop or
\* call went on, between the two.
ConsumedAtOnce(j) ==
    /\ obs.trace[j + 1].ev = "expr"
    /\ obs.trace[j + 1].expr.k = "Assign"
    /\ obs.trace[j + 1].expr.left = obs.trace[j].expr
    /\ obs.trace[j + 1].t_in < j
    /\ obs.trace[j + 1].st_out = obs.trace[j].st_out - 2
                                  + (IF obs.trace[j + 1].expr.op = "Assign" THEN 1 ELSE 0)

\* C25: after an assignment has completed or failed no slot of the value
\* stack and no element of a container holds an UnsafeRef; the only
\* evaluation that leaves one on the stack is that of a path as the left
\* side of an assignment, and the assignment pops it and writes before
\* anything else is evaluated.
C25_RawRefTransient ==
    /\ \A i \in DOMAIN stack : ~HoldsUnsafeRef(stack[i])
    /\ \A j \in HandleEvents :
          /\ obs.trace[j].expr.k = "Item"
          /\ obs.trace[j].expr.ids # <<>>
          /\ obs.trace[j].top.t = "UnsafeRef"
          /\ IF j = Len(obs.trace) THEN panicked # "" ELSE ConsumedAtOnce(j)

\* An assignment through a path has completed: its left side left an
\* UnsafeRef on the stack, and the stack holds none now.
C25_Witness ==
    /\ panicked = ""
    /\ obs.expr.k = "Assign"
    /\ obs.expr.left.k = "Item"
    /\ obs.expr.left.ids # <<>>
    /\ HandleEvents # {}
    /\ Len(obs.trace) - 1 \in HandleEvents

----------------------------------------------------------------------------
(* C26: the right side of an assignment before the left side.              *)

\* The assignments of the history that completed, with an item on the left.
AssignEvents ==
    {k \in DOMAIN obs.trace :
        /\ obs.trace[k].ev = "expr"
        /\ obs.trace[k].expr.k = "Assign"
        /\ obs.trace[k].expr.left.k = "Item"}

\* A declaring assignment of a bare name evaluates no left side
\* (runtime.rs:690-693).
HasLeftEvaluation(k) ==
    obs.trace[k].expr.op # "Assign" \/ obs.trace[k].expr.left.ids # <<>>

\* The entries of the history at which the two sides of assignment k ended:
\* the left side just before the assignment itself, the right side just
\* before the left side began.
LeftEnd(k) == k - 1
RightEnd(k) == IF HasLeftEvaluation(k) THEN obs.trace[LeftEnd(k)].t_in ELSE k - 1

\* C26: in every assignment that completes, the evaluations of the right
\* side, calls included, are the entries of the history from the start of
\* the assignment to the end of the right side; the evaluations of the left
\* path are the entries from there to the entry before the end of the
\* assignment; nothing else is evaluated in the assignment.
C26_RightThenLeft ==
    \A k \in AssignEvents :
        /\ RightEnd(k) >= 1
        /\ obs.trace[RightEnd(k)].ev = "expr"
        /\ obs.trace[RightEnd(k)].expr = obs.trace[k].expr.right
        /\ obs.trace[RightEnd(k)].t_in = obs.trace[k].t_in
        /\ HasLeftEvaluation(k) =>
              /\ LeftEnd(k) > RightEnd(k)
              /\ obs.trace[LeftEnd(k)].ev = "expr"
              /\ obs.trace[LeftEnd(k)].expr = obs.trace[k].expr.left

\* The calls of `name` that ended in the history.
CallsOf(name) ==
    {j \in DOMAIN obs.trace :
        /\ obs.trace[j].ev = "expr"
        /\ obs.trace[j].expr.k = "Call"
        /\ obs.trace[j].expr.name = name}

\* `a[bump(x)] = sq(x)` with x = 1 has completed: sq ran in the right side
\* and then bump in the left path; a[0] is 1 and x is 2.
C26_Witness ==
    /\ AfterLocals
    /\ panicked = ""
    /\ obs.expr = Set(Item("a", <<IdExpression(Call("bump", <<Var("x")>>))>>),
                      Call("sq", <<Var("x")>>))
    /\ Len(obs.trace) \in AssignEvents
    /\ \E i \in CallsOf("sq"), j \in CallsOf("bump") :
          i <= RightEnd(Len(obs.trace)) /\ RightEnd(Len(obs.trace)) < j
    /\ Held(obs.stack0, obs.local0, "x") = VF64(1)
    /\ Held(stack, obs.local0, "x") = VF64(2)
    /\ Held(stack, obs.local0, "a").a[1] = VF64(1)

----------------------------------------------------------------------------
(* C27: the call stack is balanced.                                        *)

\* The calls of the history that completed.
CallEvents ==
    {j \in DOMAIN obs.trace :
        obs.trace[j].ev = "expr" /\ obs.trace[j].expr.k = "Call"}

\* The evaluations of the history made inside a callee of main.
InCallee == {j \in DOMAIN obs.trace :
                obs.trace[j].ev = "expr" /\ Len(obs.trace[j].calls_in) >= 2}

\* C27: the name check of pop_fn never fails, and after every call that
\* completes, of a function of the program or of a built-in, the call stack
\* is the call stack before the call; so it is after every other expression.
C27_CallStackBalanced ==
    /\ panicked \notin {"Did not call", "Calling, did not call"}
    /\ \A j \in DOMAIN obs.trace :
          obs.trace[j].ev = "expr" => obs.trace[j].calls_out = obs.trace[j].calls_in

\* add(sq(x), 1) has completed: the history has the calls of sq and of add,
\* evaluations made in their frames, and main's frame is the only one left.
C27_Witness ==
    /\ AfterLocals
    /\ panicked = ""
    /\ obs.expr = Call("add", <<Call("sq", <<Var("x")>>), Number(1)>>)
    /\ Cardinality(CallEvents) = 2
    /\ \E j \in InCallee : Last(obs.trace[j].calls_in).name = "sq"
    /\ \E j \in InCallee : Last(obs.trace[j].calls_in).name = "add"
    /\ call_stack = <<[name |-> "main", st |-> 0, lc |-> 0]>>

----------------------------------------------------------------------------
(* C28: cycles through StackRefs.                                          *)

\* The indices of the StackRefs in the value v, at any depth.
RECURSIVE RefsIn(_)
RefsIn(v) ==
    CASE v.t = "Ref" -> {v.ind}
      [] v.t = "Array" -> UNION {RefsIn(v.a[i]) : i \in DOMAIN v.a}
      [] v.t = "Object" -> UNION {RefsIn(v.o[k]) : k \in DOMAIN v.o}
      [] OTHER -> {}

\* The slots of stk that the slots of `from` lead to in n steps or fewer,
\* a step going from a slot to the slots its value refers to.
RECURSIVE LeadsTo(_, _, _)
LeadsTo(stk, from, n) ==
    IF n = 0 THEN {}
    ELSE Let(UNION {RefsIn(At(stk, i)) : i \in {j \in from : j < Len(stk)}},
             LAMBDA next: next \cup LeadsTo(stk, next, n - 1))

\* The slots of stk whose value leads back to the slot.
Cyclic(stk) == {i \in 0..(Len(stk) - 1) : i \in LeadsTo(stk, {i}, Len(stk))}

NonTermination == {"deep_clone does not terminate", "print_variable does not terminate"}

\* C28: no slot of the value stack holds a value that leads back to the slot
\* through StackRefs, and clone, print and println terminate.
C28_NoCycle ==
    /\ panicked = "" => Cyclic(stack) = {}
    /\ panicked \notin NonTermination

\* After `a = [a]` the slot of a holds an array whose element is a StackRef
\* to that slot, and `clone(a)` does not return.
C28_Witness ==
    /\ AfterLocals
    /\ obs.expr = Call("clone", <<Var("a")>>)
    /\ Held(obs.stack0, obs.local0, "a") = VArray(<<VRef(SlotOf(obs.local0, "a"))>>)
    /\ SlotOf(obs.local0, "a") \in Cyclic(obs.stack0)
    /\ panicked = "deep_clone does not terminate"

----------------------------------------------------------------------------
(* C29: the stacks after a for-loop.                                       *)

\* The for-loops of the history that ended with a flow other than Return.
LoopEvents ==
    {j \in DOMAIN obs.trace :
        /\ obs.trace[j].ev = "expr"
        /\ obs.trace[j].expr.k = "For"
        /\ obs.trace[j].flow.f # "Return"}

\* C29: when a for-loop ends with a flow other than Return, the heights of
\* the value stack and of the local stack are their heights before the
\* init of the loop.
C29_LoopRestoresStacks ==
    \A j \in LoopEvents :
        /\ obs.trace[j].st_out = obs.trace[j].st_in
        /\ obs.trace[j].lc_out = obs.trace[j].lc_in

\* With f := true on top of the stack, the loop
\* `for x = 0; inc(x); x += 1 { break }` has ended by its break: the test
\* of the condition popped the slot of f, and the stack is one slot lower
\* than before the loop while f is still bound.
C29_Witness ==
    /\ AfterLocals
    /\ panicked = ""
    /\ obs.expr.k = "For"
    /\ obs.expr.cond = Call("inc", <<Var("x")>>)
    /\ Len(obs.trace) \in LoopEvents
    /\ Last(obs.stack0) = VBool(TRUE)
    /\ Len(stack) = Len(obs.stack0) - 1
    /\ local_stack = obs.local0
    /\ Bound(local_stack, "f")
    /\ SlotOf(local_stack, "f") = Len(stack)

----------------------------------------------------------------------------
(* C30: a `return v` in the blocks of a callee.                            *)

\* The operands of an If and of a For that are not blocks.
Operands(e) ==
    CASE e.k = "If" -> {e.cond}
      [] e.k = "For" -> {e.init, e.cond, e.step}
      [] OTHER -> {}

\* The evaluation at j is, or is part of, the evaluation of an operand of
\* the If or For that ended at k.
InOperand(k, j) ==
    \E c \in ExprAt :
        /\ c = j \/ Encloses(c, j)
        /\ Encloses(k, c)
        /\ obs.trace[c].expr \in Operands(obs.trace[k].expr)

\* The bodies of calls that ended after the evaluation at j.
BodyEnds(j) == {b \in DOMAIN obs.trace : b > j /\ obs.trace[b].ev = "body"}

\* The `return v` expressions of the history that stand in the callee at
\* some depth of blocks, of blocks of ifs and of bodies of for-loops, and
\* whose callee's body has ended, so that the history has every expression
\* around them.
ReturnInBlocks ==
    {j \in ReturnAt :
        /\ obs.trace[j].expr.k = "Return"
        /\ BodyEnds(j) # {}
        /\ \A k \in Around(j) :
              /\ obs.trace[k].expr.k \in {"Block", "If", "For"}
              /\ ~InOperand(k, j)}

\* C30: after a `return v` in the blocks of a callee no expression of the
\* callee is evaluated, every block, if and loop around it ends with the
\* flow Return, the call ends with a value and the flow Continue, and main,
\* when it is the caller and has not ended since, is still running.
C30_ReturnEndsCallee ==
    \A j \in ReturnInBlocks :
        /\ Later(j) = {}
        /\ \A k \in Around(j) : obs.trace[k].flow.f = "Return"
        /\ CallEnd(j) <= Len(obs.trace)
        /\ obs.trace[CallEnd(j)].flow = FlowContinue
        /\ obs.trace[CallEnd(j)].expect = "Something"
        /\ obs.trace[CallEnd(j)].calls_out = obs.trace[CallEnd(j)].calls_in
        /\ CallEnd(j) = Len(obs.trace) /\ call_stack # <<>> =>
              Running /\ obs.flow = FlowContinue

\* shadow() has failed: its `return 6` was evaluated in the block of the
\* body and yielded Return, nothing was evaluated after it, the body ended
\* with the flow Return and the return slot unset, and the call did not end.
C30_Witness ==
    /\ AfterLocals
    /\ obs.expr = Call("shadow", <<>>)
    /\ panicked = "Function did not return a value"
    /\ \E j \in ReturnInBlocks :
          /\ obs.trace[j].expr = Return(Number(6))
          /\ Later(j) = {}
          /\ CallEnd(j) > Len(obs.trace)
          /\ \E b \in BodyEnds(j) :
                /\ obs.trace[b].name = "shadow"
                /\ obs.trace[b].flow = FlowReturn
                /\ obs.trace[b].slot = VReturn

----------------------------------------------------------------------------
(* C31: the declaration of a bare name.                                    *)

\* The last expression of main's body was `name := e` with a bare name, and
\* it completed.
Declared ==
    /\ Completed
    /\ call_stack # <<>>
    /\ BareDeclare(obs.expr)

\* The right side of the declaration is a bare local.
FromLocal == obs.expr.right.k = "Item" /\ obs.expr.right.ids = <<>>

\* C31: `name := e` with a bare name raises both stacks by one, binds the
\* name to the index of the pushed value, which is a copy and not a StackRef
\* when e is a bare local, leaves the earlier bindings and slots as they
\* were, and a lookup of the name in the frame finds the new binding.
C31_DeclareBinds ==
    Declared =>
        /\ Len(local_stack) = Len(obs.local0) + 1
        /\ Len(stack) = Len(obs.stack0) + 1
        /\ Last(local_stack) = [name |-> obs.expr.left.name, id |-> Len(obs.stack0)]
        /\ SubSeq(local_stack, 1, Len(obs.local0)) = obs.local0
        /\ SubSeq(stack, 1, Len(obs.stack0)) = obs.stack0
        /\ find_local(local_stack, Len(local_stack) - Last(call_stack).lc,
                      obs.expr.left.name) = Len(local_stack)
        /\ FromLocal =>
              /\ Last(stack).t # "Ref"
              /\ Last(stack) = resolve(obs.stack0,
                                       Held(obs.stack0, obs.local0, obs.expr.right.name))

\* After `b = a` the slot of b holds a StackRef to the slot of a, and
\* `c := b` has bound c to a new slot that holds that StackRef.
C31_Witness ==
    /\ Declared
    /\ obs.expr = Declare("c", Var("b"))
    /\ Held(obs.stack0, obs.local0, "b") = VRef(SlotOf(obs.local0, "a"))
    /\ Len(stack) = Len(obs.stack0) + 1
    /\ Last(local_stack) = [name |-> "c", id |-> Len(obs.stack0)]
    /\ Last(stack) = VRef(SlotOf(obs.local0, "a"))

----------------------------------------------------------------------------
(* C32: the index of an array segment.                                     *)

MaxIndexOps == 2

\* x := 1; a := [x, 2]
IndexLocals ==
    << {Declare("x", Number(1))},
       {Declare("a", Array(<<Var("x"), Number(2)>>))} >>

\* The indices, below, in and above the range of a, as a literal and as a
\* bracket expression.
Indices == (0 - 2)..3
Segments == {IdF64(n) : n \in Indices} \cup {IdExpression(Number(n)) : n \in Indices}
Elements == {Item("a", <<s>>) : s \in Segments}

\* Reads of an element, and declaring and updating assignments to it.
IndexOps ==
    Elements \cup {Assign(op, e, Number(9)) : op \in {"Assign", "Set", "Add"}, e \in Elements}

IndexNext == Exec(IndexLocals, IndexOps, MaxIndexOps) \/ Finish

IndexSpec == Init /\ [][IndexNext]_vars

\* The last expression was one of IndexOps; its element and its index.
Indexed == Len(prog) > Len(IndexLocals) /\ call_stack # <<>>
IndexedElement == IF obs.expr.k = "Item" THEN obs.expr ELSE obs.expr.left
IndexValue ==
    IF IndexedElement.ids[1].id = "F64" THEN IndexedElement.ids[1].n
    ELSE IndexedElement.ids[1].e.num

\* The index is negative or not less than the length of the array.
OutOfRange ==
    IndexValue < 0 \/ IndexValue >= Len(Held(obs.stack0, obs.local0, "a").a)

\* C32: a read or an assignment through an array segment whose index is
\* negative or not less than the length of the array fails, and leaves the
\* locals as they were.
C32_IndexChecked ==
    Indexed /\ OutOfRange =>
        /\ panicked # ""
        /\ \A name \in {"x", "a"} :
              Held(stack, obs.local0, name) = Held(obs.stack0, obs.local0, name)

\* `a[-1] = 9` has completed: it wrote the first element of a.
C32_Witness ==
    /\ Indexed
    /\ obs.expr = Set(Ix("a", 0 - 1), Number(9))
    /\ OutOfRange
    /\ panicked = ""
    /\ Held(obs.stack0, obs.local0, "a") = VArray(<<VRef(0), VF64(2)>>)
    /\ Held(stack, obs.local0, "a") = VArray(<<VF64(9), VF64(2)>>)

----------------------------------------------------------------------------
(* C33: `+=` on a text that shares its buffer.                             *)

MaxTextOps == 2

\* a := "s"; b := a; t := "u".  The declaration `b := a` clones the
\* Variable::Text of a, an Arc of the same buffer.
TextLocals ==
    << {Declare("a", Text(<<"s">>))},
       {Declare("b", Var("a"))},
       {Declare("t", Text(<<"u">>))} >>

TextNames == {"a", "b", "t"}

\* `=` and `+=` between the texts, and from a literal.  A `+=` of a local to
\* itself, which appends to a buffer from that same buffer, is left out.
TextUpdates ==
    {Assign(op, Var(l), r) :
        op \in {"Set", "Add"}, l \in TextNames,
        r \in {Text(<<"v">>)} \cup {Var(n) : n \in TextNames}}
    \ {Assign("Add", Var(n), Var(n)) : n \in TextNames}

TextNext == Exec(TextLocals, TextUpdates, MaxTextOps) \/ Finish

TextSpec == Init /\ [][TextNext]_vars

\* The last expression was one of TextUpdates.
TextUpdated == Len(prog) > Len(TextLocals) /\ call_stack # <<>>

\* The text of the right side of the last expression, before it.
RightText ==
    IF obs.expr.right.k = "Text" THEN obs.expr.right.text
    ELSE Held(obs.stack0, obs.local0, obs.expr.right.name).s

----------------------------------------------------------------------------
(* C34: comparing containers.                                              *)

MaxCompares == 1

\* x := 1; o := {p: 1}; p := o; a := [1]; b := [2].
CompareLocals ==
    << {Declare("x", Number(1))},
       {Declare("o", Object(<<KV("p", Number(1))>>))},
       {Declare("p", Var("o"))},
       {Declare("a", Array(<<Number(1)>>))},
       {Declare("b", Array(<<Number(2)>>))} >>

CompareOperands ==
    {Var(n) : n \in {"x", "o", "p", "a", "b"}}
    \cup {Object(<<>>), Array(<<Number(1)>>)}

CompareOps ==
    {"Less", "LessOrEqual", "Greater", "GreaterOrEqual", "Equal", "NotEqual"}

Compares ==
    {Compare(op, l, r) : op \in CompareOps, l \in CompareOperands,
                         r \in CompareOperands}

CompareNext == Exec(CompareLocals, Compares, MaxCompares) \/ Finish

CompareSpec == Init /\ [][CompareNext]_vars

\* The last expression was one of Compares.
Compared == Len(prog) > Len(CompareLocals) /\ call_stack # <<>>

\* The value an operand of the last expression stands for.
OperandValue(e) ==
    CASE e.k = "Item" -> Held(obs.stack0, obs.local0, e.name)
      [] e.k = "Object" -> VObject(<<>>)
      [] OTHER -> VArray(<<VF64(1)>>)

\* Both operands of the last expression are Objects, or both are Arrays.
TwoContainers ==
    \E t \in {"Object", "Array"} :
        /\ OperandValue(obs.expr.left).t = t
        /\ OperandValue(obs.expr.right).t = t

\* C34: `==` or `!=` between two Objects or two Arrays completes and leaves
\* one Bool on the stack, the equality of the two containers by value.
C34_ContainersCompared ==
    Compared /\ obs.expr.op \in {"Equal", "NotEqual"} /\ TwoContainers =>
        /\ panicked = ""
        /\ stack = Append(obs.stack0,
              VBool((OperandValue(obs.expr.left) = OperandValue(obs.expr.right))
                    <=> obs.expr.op = "Equal"))

\* `o == p` after `p := o` has failed in compare.
C34_Witness ==
    /\ Compared
    /\ obs.expr = Compare("Equal", Var("o"), Var("p"))
    /\ Held(obs.stack0, obs.local0, "o") = Held(obs.stack0, obs.local0, "p")
    /\ Held(obs.stack0, obs.local0, "o").t = "Object"
    /\ panicked = "Invalid type"

=============================================================================
